---- MODULE Spec2Model ----
(***************************************************************************)
(* State-machine model of the filesystem-backed notification store of      *)
(* shurcooL/notifications (package fs): List, Count, Notify, Subscribe,    *)
(* MarkRead and MarkAllRead over a hierarchical store.                     *)
(*                                                                         *)
(* Go strings are sequences of one-character strings, so that the key and  *)
(* path encodings are computed as the code computes them.  A path is a     *)
(* sequence of segments, the store is a function from the paths that       *)
(* exist to their nodes.  Time is counted in days.                         *)
(***************************************************************************)
EXTENDS Integers, Sequences, FiniteSets, TLC

VARIABLES
    fs,      \* the hierarchical store: path -> node
    now,     \* the wall clock, in days
    prev,    \* the store as the last step found it
    last,    \* the last step: operation, argument list and error returned;
             \* for a Notify during which the store failed, also the loop's order
    scen,    \* progress of the end-to-end scenario on a fresh store
    ncalls,  \* number of calls made so far
    fsMu,    \* the readers-writer lock: writer inside, number of readers inside
    pc,      \* where each goroutine is in its call
    inCall   \* the call each goroutine is making

vars == <<fs, now, prev, last, scen, ncalls, fsMu, pc, inCall>>

----------------------------------------------------------------------------
(* Bounds of the model *)

MaxCalls == 3
MaxNow == 31

----------------------------------------------------------------------------
(* Strings *)

Digit == <<"0", "1", "2", "3", "4", "5", "6", "7", "8", "9">>

\* byte values of the characters that occur in names (sort order of ReadDir)
CharCode ==
    [c \in {"-", "/", "0", "1", "2", "3", "4", "5", "6", "7", "8", "9", "@",
            "i", "r", "s", "x"} |->
        CASE c = "-" -> 45 [] c = "/" -> 47
          [] c = "0" -> 48 [] c = "1" -> 49 [] c = "2" -> 50 [] c = "3" -> 51
          [] c = "4" -> 52 [] c = "5" -> 53 [] c = "6" -> 54 [] c = "7" -> 55
          [] c = "8" -> 56 [] c = "9" -> 57 [] c = "@" -> 64
          [] c = "i" -> 105 [] c = "r" -> 114 [] c = "s" -> 115 [] c = "x" -> 120]

Min(S) == CHOOSE x \in S : \A y \in S : x <= y

\* strconv.FormatUint(n, 10)
RECURSIVE formatUint64(_)
formatUint64(n) ==
    IF n < 10 THEN <<Digit[n + 1]>>
    ELSE formatUint64(n \div 10) \o <<Digit[(n % 10) + 1]>>

IsDigit(c) == \E i \in 1..10 : Digit[i] = c
DigitValue(c) == (CHOOSE i \in 1..10 : Digit[i] = c) - 1

\* strconv.ParseUint(s, 10, 64): [ok, v]
RECURSIVE ParseDigits(_, _)
ParseDigits(s, acc) ==
    IF s = <<>> THEN acc ELSE ParseDigits(Tail(s), acc * 10 + DigitValue(Head(s)))
ParseUint(s) ==
    IF s = <<>> \/ \E i \in 1..Len(s) : ~IsDigit(s[i])
    THEN [ok |-> FALSE, v |-> 0]
    ELSE [ok |-> TRUE, v |-> ParseDigits(s, 0)]

\* strings.Replace(s, old, new, -1) for one-character old and new
Replace(s, old, new) == [i \in 1..Len(s) |-> IF s[i] = old THEN new ELSE s[i]]

\* bytewise string comparison a < b
RECURSIVE StrLess(_, _)
StrLess(a, b) ==
    IF b = <<>> THEN FALSE
    ELSE IF a = <<>> THEN TRUE
    ELSE IF Head(a) = Head(b) THEN StrLess(Tail(a), Tail(b))
    ELSE CharCode[Head(a)] < CharCode[Head(b)]

\* the names of S in increasing order
RECURSIVE SortNames(_)
SortNames(S) ==
    IF S = {} THEN <<>>
    ELSE LET m == CHOOSE x \in S : \A y \in S \ {x} : StrLess(x, y)
         IN  <<m>> \o SortNames(S \ {m})

\* the "/"-separated elements of s, empty elements dropped (path.Clean)
RECURSIVE SplitSlash(_, _)
SplitSlash(s, cur) ==
    IF s = <<>> THEN (IF cur = <<>> THEN <<>> ELSE <<cur>>)
    ELSE IF Head(s) = "/"
         THEN (IF cur = <<>> THEN <<>> ELSE <<cur>>) \o SplitSlash(Tail(s), <<>>)
         ELSE SplitSlash(Tail(s), Append(cur, Head(s)))

\* path.Join(elems...): the path whose segments are those of the elements
RECURSIVE pathJoin(_)
pathJoin(elems) ==
    IF elems = <<>> THEN <<>>
    ELSE SplitSlash(Head(elems), <<>>) \o pathJoin(Tail(elems))

----------------------------------------------------------------------------
(* The hierarchical store (webdav.FileSystem, vfsutil) *)

DirNode == [kind |-> "dir", data |-> <<>>]
FileNode(d) == [kind |-> "file", data |-> d]

Ok(f) == [fs |-> f, err |-> "nil"]
Fail(f, e) == [fs |-> f, err |-> e]

IsPrefix(d, p) == Len(d) <= Len(p) /\ SubSeq(p, 1, Len(d)) = d
Exists(f, p) == p = <<>> \/ p \in DOMAIN f
IsDirAt(f, p) == p = <<>> \/ (p \in DOMAIN f /\ f[p].kind = "dir")

\* the names of the entries of directory d
ChildNames(f, d) ==
    {p[Len(p)] : p \in {q \in DOMAIN f : Len(q) = Len(d) + 1 /\ IsPrefix(d, q)}}

\* resolving the parent of p: every proper prefix must be a directory
findErr(f, p) ==
    LET bad == {i \in 1..(Len(p) - 1) : ~IsDirAt(f, SubSeq(p, 1, i))}
    IN  IF p = <<>> THEN "ErrInvalid"
        ELSE IF bad = {} THEN "nil"
        ELSE IF Exists(f, SubSeq(p, 1, Min(bad))) THEN "ErrInvalid"
        ELSE "ErrNotExist"

\* f with the entry p set to node
Put(f, p, node) == [q \in (DOMAIN f) \cup {p} |-> IF q = p THEN node ELSE f[q]]

\* f without p and everything below it
Prune(f, p) == [q \in {r \in DOMAIN f : ~IsPrefix(p, r)} |-> f[q]]

Mkdir(f, p) ==
    IF findErr(f, p) # "nil" THEN Fail(f, findErr(f, p))
    ELSE IF p \in DOMAIN f THEN Fail(f, "ErrExist")
    ELSE Ok(Put(f, p, DirNode))

RECURSIVE MkdirAll(_, _)
MkdirAll(f, p) ==
    IF p = <<>> \/ IsDirAt(f, p) THEN Ok(f)
    ELSE IF Exists(f, p) THEN Fail(f, "ErrNotDir")
    ELSE LET up == MkdirAll(f, SubSeq(p, 1, Len(p) - 1))
         IN  IF up.err # "nil" THEN up ELSE Mkdir(up.fs, p)

RemoveAll(f, p) ==
    IF findErr(f, p) # "nil" THEN Fail(f, findErr(f, p))
    ELSE Ok(Prune(f, p))

\* Rename moves the node at old, with everything below it, to new in one step
Rename(f, old, new) ==
    IF findErr(f, old) # "nil" THEN Fail(f, findErr(f, old))
    ELSE IF findErr(f, new) # "nil" THEN Fail(f, findErr(f, new))
    ELSE IF old \notin DOMAIN f THEN Fail(f, "ErrNotExist")
    ELSE IF f[old].kind = "dir" /\ new \in DOMAIN f /\ f[new].kind # "dir"
         THEN Fail(f, "ErrNotDir")
    ELSE IF f[old].kind = "dir" /\ new \in DOMAIN f /\ ChildNames(f, new) # {}
         THEN Fail(f, "ErrNotEmpty")
    ELSE LET moved == {q \in DOMAIN f : IsPrefix(old, q)}
             rest  == Prune(Prune(f, old), new)
             to(q) == new \o SubSeq(q, Len(old) + 1, Len(q))
         IN  Ok([q \in (DOMAIN rest) \cup {to(m) : m \in moved} |->
                   IF \E m \in moved : to(m) = q
                   THEN f[CHOOSE m \in moved : to(m) = q]
                   ELSE rest[q]])

\* OpenFile(O_CREATE|O_TRUNC) then write data and close
WriteFile(f, p, data) ==
    IF findErr(f, p) # "nil" THEN Fail(f, findErr(f, p))
    ELSE IF IsDirAt(f, p) THEN Fail(f, "ErrInvalid")
    ELSE Ok(Put(f, p, FileNode(data)))

\* vfsutil.Stat
StatErr(f, p) ==
    IF p = <<>> THEN "nil"
    ELSE IF findErr(f, p) # "nil" THEN findErr(f, p)
    ELSE IF p \in DOMAIN f THEN "nil" ELSE "ErrNotExist"

\* vfsutil.ReadDir: the entries of d sorted by name, [err, names]
ReadDir(f, d) ==
    IF StatErr(f, d) # "nil" THEN [err |-> StatErr(f, d), names |-> <<>>]
    ELSE IF ~IsDirAt(f, d) THEN [err |-> "ErrInvalid", names |-> <<>>]
    ELSE [err |-> "nil", names |-> SortNames(ChildNames(f, d))]

\* variant of IsNotExist that takes no error for a missing entry
IsNotExist_Never(e) == FALSE

IsNotExist(e) == e = "ErrNotExist"
IsExist(e) == e = "ErrExist"

----------------------------------------------------------------------------
(* ioutil: files of the store *)

\* variant of jsonEncodeFile that leaves a file that already exists as it is
jsonEncodeFile_KeepOld(f, p, v) ==
    IF p \in DOMAIN f /\ f[p].kind = "file" THEN Ok(f) ELSE WriteFile(f, p, <<v>>)

\* jsonEncodeFile encodes v into the file at p, overwriting or creating it
jsonEncodeFile(f, p, v) == WriteFile(f, p, <<v>>)

\* jsonDecodeFile decodes the file at p: [err, v]; an empty file does not decode
jsonDecodeFile(f, p) ==
    IF StatErr(f, p) # "nil" THEN [err |-> StatErr(f, p), v |-> <<>>]
    ELSE IF IsDirAt(f, p) THEN [err |-> "ErrInvalid", v |-> <<>>]
    ELSE IF f[p].data = <<>> THEN [err |-> "EOF", v |-> <<>>]
    ELSE [err |-> "nil", v |-> f[p].data[1]]

\* variant of createEmptyFile that refuses a path that already exists
createEmptyFile_Excl(f, p) ==
    LET up == MkdirAll(f, SubSeq(p, 1, Len(p) - 1))
    IN  IF p \in DOMAIN f THEN Fail(f, "ErrExist")
        ELSE IF up.err # "nil" THEN up
        ELSE Ok(Put(up.fs, p, FileNode(<<>>)))

\* createEmptyFile creates an empty file at p, creating parents if needed
createEmptyFile(f, p) ==
    LET create(g) ==
            IF findErr(g, p) # "nil" THEN Fail(g, findErr(g, p))
            ELSE IF IsDirAt(g, p) THEN Ok(g)
            ELSE Ok(Put(g, p, FileNode(<<>>)))
        first == create(f)
    IN  IF IsNotExist(first.err)
        THEN LET up == MkdirAll(f, SubSeq(p, 1, Len(p) - 1))
             IN  IF up.err # "nil" THEN up ELSE create(up.fs)
        ELSE first

----------------------------------------------------------------------------
(* scheme: on-disk representation and tree layout *)

marshalUserSpec(us) == formatUint64(us.ID) \o <<"@">> \o us.Domain

\* unmarshalUserSpec parses "1@example.com": [ok, us]
unmarshalUserSpec(name) ==
    LET ats == {i \in 1..Len(name) : name[i] = "@"}
        at  == Min(ats)
        id  == ParseUint(SubSeq(name, 1, at - 1))
    IN  IF ats = {} \/ ~id.ok
        THEN [ok |-> FALSE, us |-> [ID |-> 0, Domain |-> <<>>]]
        ELSE [ok |-> TRUE,
              us |-> [ID |-> id.v, Domain |-> SubSeq(name, at + 1, Len(name))]]

notificationsDir(user) == pathJoin(<< <<"notifications">>, marshalUserSpec(user) >>)
notificationPath(user, key) == notificationsDir(user) \o pathJoin(<<key>>)
readDir(user) == pathJoin(<< <<"read">>, marshalUserSpec(user) >>)
readPath(user, key) == readDir(user) \o pathJoin(<<key>>)

notificationKey(repo, threadType, threadID) ==
    Replace(repo.URI, "/", "-") \o <<"-">> \o threadType \o <<"-">>
        \o formatUint64(threadID)

subscribersDir(repo, threadType, threadID) ==
    IF threadType = <<>> /\ threadID = 0
    THEN pathJoin(<< <<"subscribers">>, repo.URI >>)
    ELSE pathJoin(<< <<"subscribers">>, repo.URI,
                     threadType \o <<"-">> \o formatUint64(threadID) >>)

subscriberPath(repo, threadType, threadID, subscriber) ==
    subscribersDir(repo, threadType, threadID) \o pathJoin(<<marshalUserSpec(subscriber)>>)

----------------------------------------------------------------------------
(* fs: the service *)

RetentionDays == 30

Range(q) == {q[i] : i \in 1..Len(q)}

\* result of a call: the store it leaves, its error, the store after each
\* store operation it performed, and what it returns
Result(f, e, st, o) == [fs |-> f, err |-> e, steps |-> st, out |-> o]

\* variant of authError that lets the zero identity through
authError_ErrOnly(currentUser) ==
    IF "err" \in DOMAIN currentUser THEN currentUser.err ELSE "nil"

\* the error a handler returns before it takes the lock: the error of
\* GetAuthenticatedSpec, or os.ErrPermission for the zero identity; the
\* outcome of GetAuthenticatedSpec is a user spec, with the error if any
authError(currentUser) ==
    IF "err" \in DOMAIN currentUser THEN currentUser.err
    ELSE IF currentUser.ID = 0 THEN "ErrPermission"
    ELSE "nil"

\* the on-disk notification that Notify encodes
notification(repo, threadType, threadID, nr, participating) ==
    [RepoSpec |-> [URI |-> repo.URI],
     ThreadType |-> threadType,
     ThreadID |-> threadID,
     Title |-> nr.Title,
     HTMLURL |-> nr.HTMLURL,
     UpdatedAt |-> nr.UpdatedAt,
     Icon |-> nr.Icon,
     Color |-> [R |-> nr.Color.R, G |-> nr.Color.G, B |-> nr.Color.B],
     Actor |-> [ID |-> nr.Actor.ID, Domain |-> nr.Actor.Domain],
     Participating |-> participating]

\* the user specs named by the files (directories skipped) of directory d
markerUsers(f, d, names) ==
    {unmarshalUserSpec(n).us :
        n \in {m \in Range(names) :
                  ~IsDirAt(f, d \o <<m>>) /\ unmarshalUserSpec(m).ok}}

\* variant of subscribersOf that leaves the thread subscribers out
subscribersOf_WatchersOnly(f, repo, threadType, threadID) ==
    LET wd == subscribersDir(repo, <<>>, 0)
        w  == ReadDir(f, wd)
        W  == markerUsers(f, wd, w.names)
    IN  IF w.err # "nil" /\ ~IsNotExist(w.err)
        THEN [err |-> w.err, users |-> {}, participating |-> {}]
        ELSE [err |-> "nil", users |-> W, participating |-> {}]

\* variant of subscribersOf that leaves the repo watchers out
subscribersOf_ThreadOnly(f, repo, threadType, threadID) ==
    LET td == subscribersDir(repo, threadType, threadID)
        t  == ReadDir(f, td)
        T  == markerUsers(f, td, t.names)
    IN  IF t.err # "nil" /\ ~IsNotExist(t.err)
        THEN [err |-> t.err, users |-> {}, participating |-> {}]
        ELSE [err |-> "nil", users |-> T, participating |-> T]

\* Notify's subscribers map: [err, users, participating]
subscribersOf(f, repo, threadType, threadID) ==
    LET wd == subscribersDir(repo, <<>>, 0)
        td == subscribersDir(repo, threadType, threadID)
        w  == ReadDir(f, wd)
        t  == ReadDir(f, td)
        W  == markerUsers(f, wd, w.names)
        T  == markerUsers(f, td, t.names)
    IN  IF w.err # "nil" /\ ~IsNotExist(w.err)
        THEN [err |-> w.err, users |-> {}, participating |-> {}]
        ELSE IF t.err # "nil" /\ ~IsNotExist(t.err)
        THEN [err |-> t.err, users |-> {}, participating |-> {}]
        ELSE [err |-> "nil", users |-> W \cup T, participating |-> T]

\* A store operation can fail for reasons of the store itself (webdav's
\* FileSystem is an interface): a fault names the subscriber and the store
\* operation of Notify's loop that fails, with an error that is neither
\* not-exist nor exist.
NoFault == [user |-> <<>>, op |-> "none"]
StoreError == "store error"
Fails(fault, subscriber, op) == fault.user = <<subscriber>> /\ fault.op = op

\* variant of notifyOne that does not delete the read record
notifyOne_KeepRead(f, subscriber, participating, repo, threadType, threadID, nr, fault) ==
    LET key == notificationKey(repo, threadType, threadID)
        r2  == IF Fails(fault, subscriber, "Mkdir") THEN Fail(f, StoreError)
               ELSE Mkdir(f, notificationsDir(subscriber))
        r3  == IF Fails(fault, subscriber, "OpenFile") THEN Fail(r2.fs, StoreError)
               ELSE jsonEncodeFile(r2.fs, notificationPath(subscriber, key),
                        notification(repo, threadType, threadID, nr, participating))
    IN  IF r2.err # "nil" /\ ~IsExist(r2.err)
        THEN Result(r2.fs, r2.err, <<>>, <<>>)
        ELSE IF r3.err # "nil"
        THEN Result(r3.fs, "error writing", <<r2.fs>>, <<>>)
        ELSE Result(r3.fs, "nil", <<r2.fs, r3.fs>>, <<>>)

\* body of Notify's loop for one subscriber other than the caller
notifyOne(f, subscriber, participating, repo, threadType, threadID, nr, fault) ==
    LET key == notificationKey(repo, threadType, threadID)
        r1  == IF Fails(fault, subscriber, "RemoveAll") THEN Fail(f, StoreError)
               ELSE RemoveAll(f, readPath(subscriber, key))
        r2  == IF Fails(fault, subscriber, "Mkdir") THEN Fail(r1.fs, StoreError)
               ELSE Mkdir(r1.fs, notificationsDir(subscriber))
        r3  == IF Fails(fault, subscriber, "OpenFile") THEN Fail(r2.fs, StoreError)
               ELSE jsonEncodeFile(r2.fs, notificationPath(subscriber, key),
                        notification(repo, threadType, threadID, nr, participating))
    IN  IF r1.err # "nil" /\ ~IsNotExist(r1.err)
        THEN Result(r1.fs, r1.err, <<>>, <<>>)
        ELSE IF r2.err # "nil" /\ ~IsExist(r2.err)
        THEN Result(r2.fs, r2.err, <<r1.fs>>, <<>>)
        ELSE IF r3.err # "nil"
        THEN Result(r3.fs, "error writing", <<r1.fs, r2.fs>>, <<>>)
        ELSE Result(r3.fs, "nil", <<r1.fs, r2.fs, r3.fs>>, <<>>)

\* variant of notifyLoop that does not skip the caller
RECURSIVE notifyLoop_NoSkip(_, _, _, _, _, _, _, _, _)
notifyLoop_NoSkip(f, order, participating, currentUser, repo, threadType, threadID, nr, fault) ==
    IF order = <<>> THEN Result(f, "nil", <<>>, <<>>)
    ELSE LET one == notifyOne(f, Head(order), Head(order) \in participating,
                              repo, threadType, threadID, nr, fault)
             rest == notifyLoop_NoSkip(one.fs, Tail(order), participating,
                                       currentUser, repo, threadType, threadID, nr, fault)
         IN  IF one.err # "nil" THEN one
             ELSE Result(rest.fs, rest.err, one.steps \o rest.steps, <<>>)

\* variant of notifyLoop that undoes the writes made when a later one fails
RECURSIVE notifyLoop_Rollback(_, _, _, _, _, _, _, _, _)
notifyLoop_Rollback(f, order, participating, currentUser, repo, threadType, threadID, nr, fault) ==
    IF order = <<>> THEN Result(f, "nil", <<>>, <<>>)
    ELSE IF currentUser.ID # 0 /\ Head(order) = currentUser
    THEN notifyLoop_Rollback(f, Tail(order), participating, currentUser,
                             repo, threadType, threadID, nr, fault)
    ELSE LET one == notifyOne(f, Head(order), Head(order) \in participating,
                              repo, threadType, threadID, nr, fault)
             rest == notifyLoop_Rollback(one.fs, Tail(order), participating,
                                         currentUser, repo, threadType, threadID,
                                         nr, fault)
         IN  IF one.err # "nil" THEN Result(f, one.err, one.steps, <<>>)
             ELSE IF rest.err # "nil"
             THEN Result(f, rest.err, one.steps \o rest.steps, <<>>)
             ELSE Result(rest.fs, rest.err, one.steps \o rest.steps, <<>>)

\* Notify's loop over the subscribers map, visited in the given order
RECURSIVE notifyLoop(_, _, _, _, _, _, _, _, _)
notifyLoop(f, order, participating, currentUser, repo, threadType, threadID, nr, fault) ==
    IF order = <<>> THEN Result(f, "nil", <<>>, <<>>)
    ELSE IF currentUser.ID # 0 /\ Head(order) = currentUser
    THEN notifyLoop(f, Tail(order), participating, currentUser,
                    repo, threadType, threadID, nr, fault)
    ELSE LET one == notifyOne(f, Head(order), Head(order) \in participating,
                              repo, threadType, threadID, nr, fault)
             rest == notifyLoop(one.fs, Tail(order), participating, currentUser,
                                repo, threadType, threadID, nr, fault)
         IN  IF one.err # "nil" THEN one
             ELSE Result(rest.fs, rest.err, one.steps \o rest.steps, <<>>)

\* the orders in which a Go map with the keys S may be ranged over
Orders(S) == {q \in [1..Cardinality(S) -> S] : Range(q) = S}

Notify(f, currentUser, repo, threadType, threadID, nr, order, fault) ==
    LET subs == subscribersOf(f, repo, threadType, threadID)
    IN  IF authError(currentUser) # "nil"
        THEN Result(f, authError(currentUser), <<>>, <<>>)
        ELSE IF subs.err # "nil" THEN Result(f, subs.err, <<>>, <<>>)
        ELSE notifyLoop(f, order, subs.participating, currentUser,
                        repo, threadType, threadID, nr, fault)

RECURSIVE subscribeLoop(_, _, _, _, _)
subscribeLoop(f, repo, threadType, threadID, subscribers) ==
    IF subscribers = <<>> THEN Result(f, "nil", <<>>, <<>>)
    ELSE LET one == createEmptyFile(f, subscriberPath(repo, threadType, threadID,
                                                      Head(subscribers)))
             rest == subscribeLoop(one.fs, repo, threadType, threadID,
                                   Tail(subscribers))
         IN  IF one.err # "nil" THEN Result(one.fs, one.err, <<>>, <<>>)
             ELSE Result(rest.fs, rest.err, <<one.fs>> \o rest.steps, <<>>)

Subscribe(f, currentUser, repo, threadType, threadID, subscribers) ==
    IF authError(currentUser) # "nil"
        THEN Result(f, authError(currentUser), <<>>, <<>>)
    ELSE subscribeLoop(f, repo, threadType, threadID, subscribers)

\* variant of removeIfEmpty that removes the directory whatever it holds
removeIfEmpty_Always(f, d, st) ==
    LET rm == RemoveAll(f, d)
    IN  IF rm.err # "nil" THEN Result(rm.fs, rm.err, st, <<>>)
        ELSE Result(rm.fs, "nil", Append(st, rm.fs), <<>>)

\* variant of removeIfEmpty that leaves the directory in place
removeIfEmpty_Never(f, d, st) == Result(f, "nil", st, <<>>)

\* "If the user has no more unread notifications left, remove the empty directory."
removeIfEmpty(f, d, st) ==
    LET rd == ReadDir(f, d)
        rm == RemoveAll(f, d)
    IN  IF rd.err # "nil" /\ ~IsNotExist(rd.err) THEN Result(f, rd.err, st, <<>>)
        ELSE IF rd.err = "nil" /\ Len(rd.names) = 0
        THEN (IF rm.err # "nil" THEN Result(rm.fs, rm.err, st, <<>>)
              ELSE Result(rm.fs, "nil", Append(st, rm.fs), <<>>))
        ELSE Result(f, "nil", st, <<>>)

\* variant of MarkRead that writes the read record and keeps the unread one
MarkRead_Copy(f, currentUser, repo, threadType, threadID) ==
    LET key == notificationKey(repo, threadType, threadID)
        r1  == Mkdir(f, readDir(currentUser))
        r2  == Put(r1.fs, readPath(currentUser, key),
                   f[notificationPath(currentUser, key)])
    IN  IF authError(currentUser) # "nil"
        THEN Result(f, authError(currentUser), <<>>, <<>>)
        ELSE IF IsNotExist(StatErr(f, notificationPath(currentUser, key)))
        THEN Result(f, "nil", <<>>, <<>>)
        ELSE IF r1.err # "nil" /\ ~IsExist(r1.err)
        THEN Result(r1.fs, r1.err, <<>>, <<>>)
        ELSE Result(r2, "nil", <<r1.fs, r2>>, <<>>)

\* variant of MarkRead that deletes the unread record instead of moving it
MarkRead_Delete(f, currentUser, repo, threadType, threadID) ==
    LET key == notificationKey(repo, threadType, threadID)
        r1  == RemoveAll(f, notificationPath(currentUser, key))
    IN  IF authError(currentUser) # "nil"
        THEN Result(f, authError(currentUser), <<>>, <<>>)
        ELSE IF r1.err # "nil" /\ ~IsNotExist(r1.err)
        THEN Result(r1.fs, r1.err, <<>>, <<>>)
        ELSE removeIfEmpty(r1.fs, notificationsDir(currentUser), <<r1.fs>>)

\* variant of MarkRead without the early return for a missing unread record
MarkRead_NoStat(f, currentUser, repo, threadType, threadID) ==
    LET key == notificationKey(repo, threadType, threadID)
        r1  == Mkdir(f, readDir(currentUser))
        r2  == Rename(r1.fs, notificationPath(currentUser, key),
                      readPath(currentUser, key))
    IN  IF authError(currentUser) # "nil"
        THEN Result(f, authError(currentUser), <<>>, <<>>)
        ELSE IF r1.err # "nil" /\ ~IsExist(r1.err)
        THEN Result(r1.fs, r1.err, <<>>, <<>>)
        ELSE IF r2.err # "nil" THEN Result(r2.fs, r2.err, <<r1.fs>>, <<>>)
        ELSE removeIfEmpty(r2.fs, notificationsDir(currentUser), <<r1.fs, r2.fs>>)

MarkRead(f, currentUser, repo, threadType, threadID) ==
    LET key == notificationKey(repo, threadType, threadID)
        r1  == Mkdir(f, readDir(currentUser))
        r2  == Rename(r1.fs, notificationPath(currentUser, key),
                      readPath(currentUser, key))
    IN  IF authError(currentUser) # "nil"
        THEN Result(f, authError(currentUser), <<>>, <<>>)
        ELSE IF IsNotExist(StatErr(f, notificationPath(currentUser, key)))
        THEN Result(f, "nil", <<>>, <<>>)
        ELSE IF r1.err # "nil" /\ ~IsExist(r1.err)
        THEN Result(r1.fs, r1.err, <<>>, <<>>)
        ELSE IF r2.err # "nil" THEN Result(r2.fs, r2.err, <<r1.fs>>, <<>>)
        ELSE removeIfEmpty(r2.fs, notificationsDir(currentUser), <<r1.fs, r2.fs>>)

\* variant of markAllLoop that stops after the first record it moves
markAllLoop_First(f, names, madeReadDir, currentUser, repo, st) ==
    LET moved == {i \in 1..Len(names) :
                     LET dec == jsonDecodeFile(f, notificationPath(currentUser, names[i]))
                     IN  dec.err = "nil" /\ dec.v.RepoSpec = repo}
        name == names[Min(moved)]
        mk   == Mkdir(f, readDir(currentUser))
        mv   == Rename(mk.fs, notificationPath(currentUser, name),
                       readPath(currentUser, name))
    IN  IF moved = {} THEN Result(f, "nil", st, <<>>)
        ELSE IF mk.err # "nil" /\ ~IsExist(mk.err) THEN Result(mk.fs, mk.err, st, <<>>)
        ELSE IF mv.err # "nil" THEN Result(mv.fs, mv.err, Append(st, mk.fs), <<>>)
        ELSE Result(mv.fs, "nil", st \o <<mk.fs, mv.fs>>, <<>>)

\* variant of markAllLoop that moves the records of every repository
RECURSIVE markAllLoop_AnyRepo(_, _, _, _, _, _)
markAllLoop_AnyRepo(f, names, madeReadDir, currentUser, repo, st) ==
    IF names = <<>> THEN Result(f, "nil", st, <<>>)
    ELSE LET mk  == Mkdir(f, readDir(currentUser))
             mv  == Rename(mk.fs, notificationPath(currentUser, Head(names)),
                           readPath(currentUser, Head(names)))
         IN  IF mk.err # "nil" /\ ~IsExist(mk.err)
             THEN Result(mk.fs, mk.err, st, <<>>)
             ELSE IF mv.err # "nil" THEN Result(mv.fs, mv.err, Append(st, mk.fs), <<>>)
             ELSE markAllLoop_AnyRepo(mv.fs, Tail(names), TRUE, currentUser, repo,
                                      st \o <<mk.fs, mv.fs>>)

\* variant of markAllLoop that returns the error of a record that does not decode
RECURSIVE markAllLoop_Abort(_, _, _, _, _, _)
markAllLoop_Abort(f, names, madeReadDir, currentUser, repo, st) ==
    IF names = <<>> THEN Result(f, "nil", st, <<>>)
    ELSE LET dec == jsonDecodeFile(f, notificationPath(currentUser, Head(names)))
             mk  == IF madeReadDir THEN Ok(f) ELSE Mkdir(f, readDir(currentUser))
             key == notificationKey(repo, dec.v.ThreadType, dec.v.ThreadID)
             mv  == Rename(mk.fs, notificationPath(currentUser, key),
                           readPath(currentUser, key))
             st1 == IF madeReadDir THEN st ELSE Append(st, mk.fs)
         IN  IF dec.err # "nil" THEN Result(f, dec.err, st, <<>>)
             ELSE IF dec.v.RepoSpec # repo
             THEN markAllLoop_Abort(f, Tail(names), madeReadDir, currentUser, repo, st)
             ELSE IF mk.err # "nil" /\ ~IsExist(mk.err)
             THEN Result(mk.fs, mk.err, st, <<>>)
             ELSE IF mv.err # "nil" THEN Result(mv.fs, mv.err, st1, <<>>)
             ELSE markAllLoop_Abort(mv.fs, Tail(names), TRUE, currentUser, repo,
                                    Append(st1, mv.fs))

\* MarkAllRead's loop over the directory listing taken before the loop
RECURSIVE markAllLoop(_, _, _, _, _, _)
markAllLoop(f, names, madeReadDir, currentUser, repo, st) ==
    IF names = <<>> THEN Result(f, "nil", st, <<>>)
    ELSE LET dec == jsonDecodeFile(f, notificationPath(currentUser, Head(names)))
             mk  == IF madeReadDir THEN Ok(f) ELSE Mkdir(f, readDir(currentUser))
             key == notificationKey(repo, dec.v.ThreadType, dec.v.ThreadID)
             mv  == Rename(mk.fs, notificationPath(currentUser, key),
                           readPath(currentUser, key))
             st1 == IF madeReadDir THEN st ELSE Append(st, mk.fs)
         IN  IF dec.err # "nil"
             THEN markAllLoop(f, Tail(names), madeReadDir, currentUser, repo, st)
             ELSE IF dec.v.RepoSpec # repo
             THEN markAllLoop(f, Tail(names), madeReadDir, currentUser, repo, st)
             ELSE IF mk.err # "nil" /\ ~IsExist(mk.err)
             THEN Result(mk.fs, mk.err, st, <<>>)
             ELSE IF mv.err # "nil" THEN Result(mv.fs, mv.err, st1, <<>>)
             ELSE markAllLoop(mv.fs, Tail(names), TRUE, currentUser, repo,
                              Append(st1, mv.fs))

MarkAllRead(f, currentUser, repo) ==
    LET fis  == ReadDir(f, notificationsDir(currentUser))
        loop == markAllLoop(f, fis.names, FALSE, currentUser, repo, <<>>)
    IN  IF authError(currentUser) # "nil"
        THEN Result(f, authError(currentUser), <<>>, <<>>)
        ELSE IF fis.err # "nil" /\ ~IsNotExist(fis.err)
        THEN Result(f, fis.err, <<>>, <<>>)
        ELSE IF loop.err # "nil" THEN loop
        ELSE removeIfEmpty(loop.fs, notificationsDir(currentUser), loop.steps)

\* users known to the identity resolver (users.Service.Get)
Resolvable == {[ID |-> 1, Domain |-> <<"x">>]}

\* variant of service.user that returns the zero user when the resolver fails
user_NoFallback(us) ==
    IF us \in Resolvable
    THEN [UserSpec |-> us, Login |-> <<"gopher">> \o formatUint64(us.ID),
          AvatarURL |-> "avatar", HTMLURL |-> "profile"]
    ELSE [UserSpec |-> [ID |-> 0, Domain |-> <<>>], Login |-> <<>>,
          AvatarURL |-> "", HTMLURL |-> ""]

\* service.user: the resolved actor, or the fallback identity
user(us) ==
    IF us \in Resolvable
    THEN [UserSpec |-> us, Login |-> <<"gopher">> \o formatUint64(us.ID),
          AvatarURL |-> "avatar", HTMLURL |-> "profile"]
    ELSE [UserSpec |-> us, Login |-> marshalUserSpec(us),
          AvatarURL |-> "", HTMLURL |-> ""]

\* the notifications.Notification that List returns for the decoded record n;
\* the literal names no Participating field, which so has its zero value
listed(n, read) ==
    [RepoSpec |-> [URI |-> n.RepoSpec.URI],
     ThreadType |-> n.ThreadType,
     ThreadID |-> n.ThreadID,
     Title |-> n.Title,
     Icon |-> n.Icon,
     Color |-> [R |-> n.Color.R, G |-> n.Color.G, B |-> n.Color.B],
     Actor |-> user([ID |-> n.Actor.ID, Domain |-> n.Actor.Domain]),
     UpdatedAt |-> n.UpdatedAt,
     Read |-> read,
     HTMLURL |-> n.HTMLURL,
     Participating |-> FALSE]

\* variant of filtered that lets every record through
filtered_Never(opt, n) == FALSE

\* opt.Repo is <<>> for nil and <<repo>> for a filter
filtered(opt, n) == opt.Repo # <<>> /\ n.RepoSpec # opt.Repo[1]

\* variant of listUnread that skips a record that does not decode
RECURSIVE listUnread_Skip(_, _, _, _, _)
listUnread_Skip(f, names, currentUser, opt, ns) ==
    IF names = <<>> THEN Result(f, "nil", <<>>, ns)
    ELSE LET dec == jsonDecodeFile(f, notificationPath(currentUser, Head(names)))
         IN  IF dec.err # "nil"
             THEN listUnread_Skip(f, Tail(names), currentUser, opt, ns)
             ELSE listUnread_Skip(f, Tail(names), currentUser, opt,
                     IF filtered(opt, dec.v) THEN ns
                     ELSE Append(ns, listed(dec.v, FALSE)))

\* List's loop over the unread directory listing
RECURSIVE listUnread(_, _, _, _, _)
listUnread(f, names, currentUser, opt, ns) ==
    IF names = <<>> THEN Result(f, "nil", <<>>, ns)
    ELSE LET dec == jsonDecodeFile(f, notificationPath(currentUser, Head(names)))
         IN  IF dec.err # "nil" THEN Result(f, "error reading", <<>>, <<>>)
             ELSE listUnread(f, Tail(names), currentUser, opt,
                     IF filtered(opt, dec.v) THEN ns
                     ELSE Append(ns, listed(dec.v, FALSE)))

\* variant of listRead that skips the old records without deleting them
RECURSIVE listRead_SkipOnly(_, _, _, _, _, _, _)
listRead_SkipOnly(f, names, currentUser, opt, t, ns, st) ==
    IF names = <<>> THEN Result(f, "nil", st, ns)
    ELSE LET dec == jsonDecodeFile(f, readPath(currentUser, Head(names)))
         IN  IF dec.err # "nil" THEN Result(f, "error reading", st, <<>>)
             ELSE listRead_SkipOnly(f, Tail(names), currentUser, opt, t,
                     IF t - dec.v.UpdatedAt > RetentionDays \/ filtered(opt, dec.v)
                     THEN ns ELSE Append(ns, listed(dec.v, TRUE)), st)

\* variant of listRead that applies the repository filter before the age test
RECURSIVE listRead_FilterFirst(_, _, _, _, _, _, _)
listRead_FilterFirst(f, names, currentUser, opt, t, ns, st) ==
    IF names = <<>> THEN Result(f, "nil", st, ns)
    ELSE LET dec == jsonDecodeFile(f, readPath(currentUser, Head(names)))
             rm  == RemoveAll(f, readPath(currentUser, Head(names)))
         IN  IF dec.err # "nil" THEN Result(f, "error reading", st, <<>>)
             ELSE IF filtered(opt, dec.v)
             THEN listRead_FilterFirst(f, Tail(names), currentUser, opt, t, ns, st)
             ELSE IF t - dec.v.UpdatedAt > RetentionDays
             THEN (IF rm.err # "nil" THEN Result(rm.fs, rm.err, st, <<>>)
                   ELSE listRead_FilterFirst(rm.fs, Tail(names), currentUser, opt, t,
                                             ns, Append(st, rm.fs)))
             ELSE listRead_FilterFirst(f, Tail(names), currentUser, opt, t,
                     Append(ns, listed(dec.v, TRUE)), st)

\* List's loop over the read directory listing: old records are deleted
RECURSIVE listRead(_, _, _, _, _, _, _)
listRead(f, names, currentUser, opt, t, ns, st) ==
    IF names = <<>> THEN Result(f, "nil", st, ns)
    ELSE LET dec == jsonDecodeFile(f, readPath(currentUser, Head(names)))
             rm  == RemoveAll(f, readPath(currentUser, Head(names)))
         IN  IF dec.err # "nil" THEN Result(f, "error reading", st, <<>>)
             ELSE IF t - dec.v.UpdatedAt > RetentionDays
             THEN (IF rm.err # "nil" THEN Result(rm.fs, rm.err, st, <<>>)
                   ELSE listRead(rm.fs, Tail(names), currentUser, opt, t, ns,
                                 Append(st, rm.fs)))
             ELSE listRead(f, Tail(names), currentUser, opt, t,
                     IF filtered(opt, dec.v) THEN ns
                     ELSE Append(ns, listed(dec.v, TRUE)), st)

\* variant of List that goes through the read area whatever opt.All is
List_AlwaysPrune(f, currentUser, opt, t) ==
    LET fis    == ReadDir(f, notificationsDir(currentUser))
        unread == listUnread(f, fis.names, currentUser, opt, <<>>)
        rfis   == ReadDir(f, readDir(currentUser))
        read   == listRead(f, rfis.names, currentUser, opt, t, unread.out, <<>>)
        tidy   == removeIfEmpty(read.fs, readDir(currentUser), read.steps)
    IN  IF authError(currentUser) # "nil"
        THEN Result(f, authError(currentUser), <<>>, <<>>)
        ELSE IF fis.err # "nil" /\ ~IsNotExist(fis.err)
        THEN Result(f, fis.err, <<>>, <<>>)
        ELSE IF unread.err # "nil" THEN unread
        ELSE IF rfis.err # "nil" /\ ~IsNotExist(rfis.err)
        THEN Result(f, rfis.err, <<>>, <<>>)
        ELSE IF read.err # "nil" THEN read
        ELSE IF tidy.err # "nil" THEN tidy
        ELSE Result(tidy.fs, "nil", tidy.steps, read.out)

\* List at time t
List(f, currentUser, opt, t) ==
    LET fis    == ReadDir(f, notificationsDir(currentUser))
        unread == listUnread(f, fis.names, currentUser, opt, <<>>)
        rfis   == ReadDir(f, readDir(currentUser))
        read   == listRead(f, rfis.names, currentUser, opt, t, unread.out, <<>>)
        tidy   == removeIfEmpty(read.fs, readDir(currentUser), read.steps)
    IN  IF authError(currentUser) # "nil"
        THEN Result(f, authError(currentUser), <<>>, <<>>)
        ELSE IF fis.err # "nil" /\ ~IsNotExist(fis.err)
        THEN Result(f, fis.err, <<>>, <<>>)
        ELSE IF unread.err # "nil" \/ ~opt.All THEN unread
        ELSE IF rfis.err # "nil" /\ ~IsNotExist(rfis.err)
        THEN Result(f, rfis.err, <<>>, <<>>)
        ELSE IF read.err # "nil" THEN read
        ELSE IF tidy.err # "nil" THEN tidy
        ELSE Result(tidy.fs, "nil", tidy.steps, read.out)

\* variant of Count that counts the entries of both areas
Count_Both(f, currentUser) ==
    LET fis  == ReadDir(f, notificationsDir(currentUser))
        rfis == ReadDir(f, readDir(currentUser))
    IN  IF authError(currentUser) # "nil"
        THEN Result(f, authError(currentUser), <<>>, 0)
        ELSE Result(f, "nil", <<>>, Len(fis.names) + Len(rfis.names))

Count(f, currentUser) ==
    LET fis == ReadDir(f, notificationsDir(currentUser))
    IN  IF authError(currentUser) # "nil"
        THEN Result(f, authError(currentUser), <<>>, 0)
        ELSE IF fis.err # "nil" /\ ~IsNotExist(fis.err)
        THEN Result(f, fis.err, <<>>, 0)
        ELSE Result(f, "nil", <<>>, Len(fis.names))

----------------------------------------------------------------------------
(* Inputs *)

U1 == [ID |-> 1, Domain |-> <<"x">>]
U2 == [ID |-> 2, Domain |-> <<"x">>]
Anonymous == [ID |-> 0, Domain |-> <<>>]
\* GetAuthenticatedSpec failed: the zero user spec and an error
Unresolved == [ID |-> 0, Domain |-> <<>>, err |-> "auth error"]
Users == {U1, U2}
\* a user who calls Notify and is never subscribed to anything
U3 == [ID |-> 3, Domain |-> <<"x">>]
Callers == Users \cup {Anonymous, Unresolved}

RepoR == [URI |-> <<"r">>]
RepoS == [URI |-> <<"s">>]
Repos == {RepoR, RepoS}

\* a thread of type "i" with id 1, and the whole repository
Issue1 == [Type |-> <<"i">>, ID |-> 1]
WholeRepo == [Type |-> <<>>, ID |-> 0]
Threads == {Issue1, WholeRepo}

\* the threads that calls name: two scopes of r, and s as a whole
ThreadRefs == {<<RepoR, Issue1>>, <<RepoR, WholeRepo>>, <<RepoS, WholeRepo>>}

SubscriberLists == {<<U1>>, <<U1, U2>>}

\* the store fails one operation of Notify's loop for one subscriber
Faults ==
    {[user |-> <<U1>>, op |-> "OpenFile"],
     [user |-> <<U2>>, op |-> "Mkdir"],
     [user |-> <<U2>>, op |-> "RemoveAll"]}

Request(title, actor, updatedAt) ==
    [Title |-> title, Icon |-> "issue-opened",
     Color |-> [R |-> 108, G |-> 198, B |-> 68],
     Actor |-> actor, UpdatedAt |-> updatedAt, HTMLURL |-> "/target"]
Requests == {Request("Issue 1", U1, 0), Request("Issue 2", U2, 1)}

NoFilter == <<>>
ListOptions == {[Repo |-> r, All |-> a] :
                   r \in {NoFilter, <<RepoR>>}, a \in BOOLEAN}

\* the argument lists of the calls; a call without an authenticated caller
\* fails before its arguments are looked at, so it has one argument list
SubscribeInputs ==
    {<<U2, RepoR, Issue1, l>> : l \in SubscriberLists}
        \cup {<<U2, RepoR, WholeRepo, <<U1, U2>>>>, <<U2, RepoS, WholeRepo, <<U1>>>>,
              <<Anonymous, RepoR, Issue1, <<U1>>>>}
NotifyInputs ==
    {<<U2, t[1], t[2], nr, NoFault>> : t \in ThreadRefs, nr \in Requests}
        \cup {<<U1, t[1], t[2], Request("Issue 1", U1, 0), NoFault>> : t \in ThreadRefs}
        \cup {<<Anonymous, RepoR, Issue1, Request("Issue 1", U1, 0), NoFault>>}
        \cup {<<U3, RepoR, Issue1, Request("Issue 2", U2, 1), fault>> :
                  fault \in Faults}
MarkReadInputs ==
    {<<c, t[1], t[2]>> : c \in Users, t \in ThreadRefs}
        \cup {<<c, RepoR, Issue1>> : c \in {Anonymous, Unresolved}}
MarkAllReadInputs ==
    (Users \X Repos) \cup {<<c, RepoR>> : c \in {Anonymous, Unresolved}}
ListInputs ==
    ({U1} \X ListOptions)
        \cup {<<U2, [Repo |-> NoFilter, All |-> TRUE]>>}
        \cup {<<c, [Repo |-> NoFilter, All |-> TRUE]>> : c \in {Anonymous, Unresolved}}
CountInputs == {<<c>> : c \in Callers}

\* the empty store, the store with the two area directories made, and a
\* store in which earlier Subscribe calls have left markers: U1 watches both
\* repositories and is subscribed to the thread of r, U2 watches r
EmptyStore == [p \in {} |-> DirNode]
PreparedStore ==
    Mkdir(Mkdir(EmptyStore, << <<"notifications">> >>).fs, << <<"read">> >>).fs
SubscribedStore ==
    Subscribe(
        Subscribe(
            Subscribe(PreparedStore, U2, RepoR, <<>>, 0, <<U1, U2>>).fs,
            U2, RepoS, <<>>, 0, <<U1>>).fs,
        U2, RepoR, Issue1.Type, Issue1.ID, <<U1>>).fs
Stores == {EmptyStore, PreparedStore, SubscribedStore}

NoCall == [op |-> "none", in |-> <<>>, err |-> "nil"]
Call(op, in, r) == [op |-> op, in |-> in, err |-> r.err]
\* what the history holds after time has passed without a call
Elapsed == [op |-> "Tick", in |-> <<>>, err |-> "nil"]

\* the goroutines that call the service concurrently
Procs == {1, 2, 3}

\* s.fsMu with nobody inside
Unlocked == [writer |-> FALSE, readers |-> 0]

----------------------------------------------------------------------------
(* The state machine: one action per operation of the service.  A handler   *)
(* runs inside the critical section of s.fsMu, so a call is one step.       *)

Init ==
    /\ fs \in Stores
    /\ now = 0
    /\ prev = fs
    /\ last = NoCall
    /\ scen = IF fs = PreparedStore THEN "fresh" ELSE "off"
    /\ ncalls = 0
    /\ fsMu = Unlocked
    /\ pc = [p \in Procs |-> "idle"]
    /\ inCall = [p \in Procs |-> NoCall]

\* the call returns r
Return(call, r, sc) ==
    /\ ncalls < MaxCalls
    /\ fs' = r.fs
    /\ prev' = fs
    /\ last' = call
    /\ scen' = sc
    /\ ncalls' = ncalls + 1
    /\ UNCHANGED <<now, fsMu, pc, inCall>>

SubscribeCall ==
    \E in \in SubscribeInputs :
        LET c == in[1]  repo == in[2]  th == in[3]  subs == in[4]
            r == Subscribe(fs, c, repo, th.Type, th.ID, subs)
        IN  Return(Call("Subscribe", in, r), r,
                   IF scen = "fresh" /\ r.err = "nil" /\ repo = RepoR
                      /\ th = Issue1 /\ subs = <<U1>>
                   THEN "subscribed" ELSE "off")

NotifyCall ==
    \E in \in NotifyInputs :
        LET c == in[1]  repo == in[2]  th == in[3]  nr == in[4]
        IN  \E order \in Orders(subscribersOf(fs, repo, th.Type, th.ID).users) :
                LET r == Notify(fs, c, repo, th.Type, th.ID, nr, order, in[5])
                    visited == IF in[5] = NoFault THEN <<>> ELSE order
                IN  Return(Call("Notify", Append(in, visited), r), r,
                           IF scen = "subscribed" /\ r.err = "nil" /\ repo = RepoR
                              /\ th = Issue1 /\ c = U2 /\ nr.Title = "Issue 1"
                           THEN "notified" ELSE "off")

MarkReadCall ==
    \E in \in MarkReadInputs :
        LET c == in[1]  repo == in[2]  th == in[3]
            r == MarkRead(fs, c, repo, th.Type, th.ID)
        IN  Return(Call("MarkRead", in, r), r,
                   IF scen = "notified" /\ r.err = "nil" /\ repo = RepoR
                      /\ th = Issue1 /\ c = U1
                   THEN "marked" ELSE "off")

MarkAllReadCall ==
    \E in \in MarkAllReadInputs :
        LET c == in[1]  repo == in[2]
            r == MarkAllRead(fs, c, repo)
        IN  Return(Call("MarkAllRead", in, r), r, "off")

ListCall ==
    \E in \in ListInputs :
        LET c == in[1]  opt == in[2]
            r == List(fs, c, opt, now)
        IN  Return(Call("List", in, r), r,
                   IF opt.All THEN "off" ELSE scen)

CountCall ==
    \E in \in CountInputs :
        LET r == Count(fs, in[1])
        IN  Return(Call("Count", in, r), r, scen)

\* time passes: long enough for a record updated now to exceed the retention
Tick ==
    /\ now + RetentionDays + 1 <= MaxNow
    /\ now' = now + RetentionDays + 1
    /\ prev' = fs
    /\ last' = Elapsed
    /\ UNCHANGED <<fs, scen, ncalls, fsMu, pc, inCall>>

Next ==
    \/ SubscribeCall
    \/ NotifyCall
    \/ MarkReadCall
    \/ MarkAllReadCall
    \/ ListCall
    \/ CountCall
    \/ Tick

Spec == Init /\ [][Next]_vars

----------------------------------------------------------------------------
(* The same service with the lock spelled out: goroutines call the service  *)
(* concurrently, each handler checks the caller, takes its side of s.fsMu,  *)
(* runs its body and releases the lock on return (defer).                   *)

\* the runs that call c can be on store f at time t
RunsOf(c, f, t) ==
    CASE c.op = "Subscribe" ->
            {Subscribe(f, c.in[1], c.in[2], c.in[3].Type, c.in[3].ID, c.in[4])}
      [] c.op = "Notify" ->
            {Notify(f, c.in[1], c.in[2], c.in[3].Type, c.in[3].ID, c.in[4], order,
                    c.in[5]) :
                order \in Orders(subscribersOf(f, c.in[2], c.in[3].Type,
                                               c.in[3].ID).users)}
      [] c.op = "MarkRead" ->
            {MarkRead(f, c.in[1], c.in[2], c.in[3].Type, c.in[3].ID)}
      [] c.op = "MarkAllRead" -> {MarkAllRead(f, c.in[1], c.in[2])}
      [] c.op = "List" -> {List(f, c.in[1], c.in[2], t)}
      [] c.op = "Count" -> {Count(f, c.in[1])}
      [] OTHER -> {}

\* variant of lockKind in which every handler takes the read lock
lockKind_AllRead(op) == "read"

\* the side of s.fsMu that the handler of op takes
lockKind(op) == IF op \in {"List", "Count"} THEN "read" ELSE "write"

\* the calls that the goroutines make
ConcurrentCalls ==
    {[op |-> "Subscribe", in |-> <<U2, RepoR, Issue1, <<U1>>>>, err |-> "nil"],
     [op |-> "Notify", in |-> <<U2, RepoR, Issue1, Request("Issue 1", U1, 0), NoFault>>,
      err |-> "nil"],
     [op |-> "MarkRead", in |-> <<U1, RepoR, Issue1>>, err |-> "nil"],
     [op |-> "MarkAllRead", in |-> <<U1, RepoR>>, err |-> "nil"],
     [op |-> "List", in |-> <<U1, [Repo |-> NoFilter, All |-> TRUE]>>, err |-> "nil"],
     [op |-> "Count", in |-> <<U1>>, err |-> "nil"],
     [op |-> "Count", in |-> <<Anonymous>>, err |-> "nil"]}

LockInit ==
    /\ fs = SubscribedStore
    /\ now = 0
    /\ prev = fs
    /\ last = NoCall
    /\ scen = "off"
    /\ ncalls = 0
    /\ fsMu = Unlocked
    /\ pc = [p \in Procs |-> "idle"]
    /\ inCall = [p \in Procs |-> NoCall]

\* goroutine p calls the service; a call without an authenticated caller
\* returns at once
Enter(p) ==
    /\ pc[p] = "idle"
    /\ ncalls < MaxCalls
    /\ ncalls' = ncalls + 1
    /\ \E c \in ConcurrentCalls :
          IF authError(c.in[1]) # "nil"
          THEN /\ last' = [c EXCEPT !.err = authError(c.in[1])]
               /\ prev' = fs
               /\ UNCHANGED <<pc, inCall>>
          ELSE /\ pc' = [pc EXCEPT ![p] = "wait"]
               /\ inCall' = [inCall EXCEPT ![p] = c]
               /\ UNCHANGED <<last, prev>>
    /\ UNCHANGED <<fs, now, scen, fsMu>>

\* s.fsMu.RLock(): waits while a writer is inside
RLock(p) ==
    /\ pc[p] = "wait"
    /\ lockKind(inCall[p].op) = "read"
    /\ ~fsMu.writer
    /\ fsMu' = [fsMu EXCEPT !.readers = @ + 1]
    /\ pc' = [pc EXCEPT ![p] = "inside"]
    /\ UNCHANGED <<fs, now, prev, last, scen, ncalls, inCall>>

\* s.fsMu.Lock(): waits while anybody is inside
Lock(p) ==
    /\ pc[p] = "wait"
    /\ lockKind(inCall[p].op) = "write"
    /\ ~fsMu.writer /\ fsMu.readers = 0
    /\ fsMu' = [fsMu EXCEPT !.writer = TRUE]
    /\ pc' = [pc EXCEPT ![p] = "inside"]
    /\ UNCHANGED <<fs, now, prev, last, scen, ncalls, inCall>>

\* the body of the handler, inside the critical section
Body(p) ==
    /\ pc[p] = "inside"
    /\ \E r \in RunsOf(inCall[p], fs, now) :
          /\ fs' = r.fs
          /\ prev' = fs
          /\ last' = Call(inCall[p].op, inCall[p].in, r)
    /\ pc' = [pc EXCEPT ![p] = "return"]
    /\ UNCHANGED <<now, scen, ncalls, fsMu, inCall>>

\* defer s.fsMu.RUnlock()
RUnlock(p) ==
    /\ pc[p] = "return"
    /\ lockKind(inCall[p].op) = "read"
    /\ fsMu' = [fsMu EXCEPT !.readers = @ - 1]
    /\ pc' = [pc EXCEPT ![p] = "idle"]
    /\ inCall' = [inCall EXCEPT ![p] = NoCall]
    /\ UNCHANGED <<fs, now, prev, last, scen, ncalls>>

\* variant of Unlock that returns without releasing s.fsMu
Unlock_Keep(p) ==
    /\ pc[p] = "return"
    /\ lockKind(inCall[p].op) = "write"
    /\ pc' = [pc EXCEPT ![p] = "idle"]
    /\ inCall' = [inCall EXCEPT ![p] = NoCall]
    /\ UNCHANGED <<fs, now, prev, last, scen, ncalls, fsMu>>

\* defer s.fsMu.Unlock()
Unlock(p) ==
    /\ pc[p] = "return"
    /\ lockKind(inCall[p].op) = "write"
    /\ fsMu' = [fsMu EXCEPT !.writer = FALSE]
    /\ pc' = [pc EXCEPT ![p] = "idle"]
    /\ inCall' = [inCall EXCEPT ![p] = NoCall]
    /\ UNCHANGED <<fs, now, prev, last, scen, ncalls>>

EnterCall == \E p \in Procs : Enter(p)
RLockCall == \E p \in Procs : RLock(p)
LockCall == \E p \in Procs : Lock(p)
BodyCall == \E p \in Procs : Body(p)
RUnlockCall == \E p \in Procs : RUnlock(p)
UnlockCall == \E p \in Procs : Unlock(p)

LockNext ==
    \/ EnterCall
    \/ RLockCall
    \/ LockCall
    \/ BodyCall
    \/ RUnlockCall
    \/ UnlockCall
    \/ Tick

LockSpec == LockInit /\ [][LockNext]_vars

\* The goroutines under the scheduler, the clock standing still: a goroutine
\* that can take a step is run, and one blocked in RLock or Lock is woken
\* when s.fsMu is released.  Step(p) is the step of goroutine p as pc shows
\* it: RLock(p) or Lock(p) when s.fsMu admits the call, then Body(p), then
\* RUnlock(p) or Unlock(p); a step of LockNext that changes pc in this way
\* is that action.
Step(p) ==
    \/ /\ pc[p] = "wait"
       /\ IF lockKind(inCall[p].op) = "read" THEN ~fsMu.writer
          ELSE ~fsMu.writer /\ fsMu.readers = 0
       /\ pc' = [pc EXCEPT ![p] = "inside"]
    \/ /\ pc[p] = "inside"
       /\ pc' = [pc EXCEPT ![p] = "return"]
    \/ /\ pc[p] = "return"
       /\ pc' = [pc EXCEPT ![p] = "idle"]

FairLockNext ==
    \/ EnterCall
    \/ RLockCall
    \/ LockCall
    \/ BodyCall
    \/ RUnlockCall
    \/ UnlockCall

FairLockSpec ==
    LockInit /\ [][FairLockNext]_vars /\ \A p \in Procs : WF_pc(Step(p))

----------------------------------------------------------------------------
(* The service called for repositories whose URIs differ only in "/" and    *)
(* "-", the character that notificationKey puts for "/".                    *)

KeyRepos == {[URI |-> <<"r", "/", "s">>], [URI |-> <<"r", "-", "s">>]}
KeyRefs == KeyRepos \X Threads

\* U1 watches both repositories
KeyStore ==
    Subscribe(
        Subscribe(PreparedStore, U2, [URI |-> <<"r", "/", "s">>], <<>>, 0, <<U1>>).fs,
        U2, [URI |-> <<"r", "-", "s">>], <<>>, 0, <<U1>>).fs

KeyInit ==
    /\ fs = KeyStore
    /\ now = 0
    /\ prev = fs
    /\ last = NoCall
    /\ scen = "off"
    /\ ncalls = 0
    /\ fsMu = Unlocked
    /\ pc = [p \in Procs |-> "idle"]
    /\ inCall = [p \in Procs |-> NoCall]

KeyNotifyCall ==
    \E t \in KeyRefs, nr \in Requests :
        LET in == <<U2, t[1], t[2], nr, NoFault>>
            r  == Notify(fs, U2, t[1], t[2].Type, t[2].ID, nr, <<U1>>, NoFault)
        IN  Return(Call("Notify", Append(in, <<>>), r), r, "off")

KeyMarkReadCall ==
    \E t \in KeyRefs :
        LET r == MarkRead(fs, U1, t[1], t[2].Type, t[2].ID)
        IN  Return(Call("MarkRead", <<U1, t[1], t[2]>>, r), r, "off")

KeyNext == KeyNotifyCall \/ KeyMarkReadCall

KeySpec == KeyInit /\ [][KeyNext]_vars

----------------------------------------------------------------------------
(* The service on a store that holds a record that does not decode: a       *)
(* write that opened the file with O_CREATE|O_TRUNC and then failed to      *)
(* encode leaves an empty file under the key.  U1 has received the          *)
(* notifications of some threads, and the record of one key is truncated.   *)

\* the store after OpenFile(p, O_CREATE|O_TRUNC) and no write
Truncated(f, p) == Put(f, p, FileNode(<<>>))

\* Notify by U2 for each thread of the sequence, delivered to U1
RECURSIVE Delivered(_, _)
Delivered(f, refs) ==
    IF refs = <<>> THEN f
    ELSE Delivered(Notify(f, U2, Head(refs)[1], Head(refs)[2].Type,
                          Head(refs)[2].ID, Request("Issue 1", U1, 0),
                          <<U1>>, NoFault).fs,
                   Tail(refs))

DeliveredRefs ==
    {<<>>, << <<RepoR, Issue1>> >>, << <<RepoS, WholeRepo>> >>,
     << <<RepoR, Issue1>>, <<RepoS, WholeRepo>> >>,
     << <<RepoR, Issue1>>, <<RepoR, WholeRepo>> >>,
     << <<RepoR, Issue1>>, <<RepoR, WholeRepo>>, <<RepoS, WholeRepo>> >>}

CorruptRefs == {<<RepoR, Issue1>>, <<RepoS, WholeRepo>>}

CorruptStores ==
    {Truncated(Mkdir(Delivered(SubscribedStore, d), notificationsDir(U1)).fs,
               notificationPath(U1, notificationKey(c[1], c[2].Type, c[2].ID))) :
        d \in DeliveredRefs, c \in CorruptRefs}

CorruptInit ==
    /\ fs \in CorruptStores
    /\ now = 0
    /\ prev = fs
    /\ last = NoCall
    /\ scen = "off"
    /\ ncalls = 0
    /\ fsMu = Unlocked
    /\ pc = [p \in Procs |-> "idle"]
    /\ inCall = [p \in Procs |-> NoCall]

CorruptMarkAllReadCall ==
    \E repo \in Repos :
        LET r == MarkAllRead(fs, U1, repo)
        IN  Return(Call("MarkAllRead", <<U1, repo>>, r), r, "off")

CorruptMarkReadCall ==
    \E t \in CorruptRefs :
        LET r == MarkRead(fs, U1, t[1], t[2].Type, t[2].ID)
        IN  Return(Call("MarkRead", <<U1, t[1], t[2]>>, r), r, "off")

CorruptListCall ==
    \E opt \in {[Repo |-> NoFilter, All |-> FALSE], [Repo |-> NoFilter, All |-> TRUE],
                 [Repo |-> <<RepoR>>, All |-> TRUE]} :
        LET r == List(fs, U1, opt, now)
        IN  Return(Call("List", <<U1, opt>>, r), r, "off")

CorruptNotifyCall ==
    \E t \in CorruptRefs :
        LET nr == Request("Issue 2", U2, 1)
            r  == Notify(fs, U2, t[1], t[2].Type, t[2].ID, nr, <<U1>>, NoFault)
        IN  Return(Call("Notify", <<U2, t[1], t[2], nr, NoFault, <<>>>>, r), r, "off")

CorruptNext ==
    \/ CorruptMarkAllReadCall
    \/ CorruptMarkReadCall
    \/ CorruptListCall
    \/ CorruptNotifyCall

CorruptSpec == CorruptInit /\ [][CorruptNext]_vars

----------------------------------------------------------------------------
(* The service called for subscribers whose domains hold the characters     *)
(* that the encoding of a user spec and the paths of the tree use: "@",     *)
(* which marshalUserSpec puts after the id, and "/", the path separator.    *)

UAt == [ID |-> 1, Domain |-> <<"x", "@", "s">>]
USlash == [ID |-> 1, Domain |-> <<"x", "/", "s">>]
MarkerUsers == {U1, U3, UAt, USlash}

MarkerInit ==
    /\ fs = PreparedStore
    /\ now = 0
    /\ prev = fs
    /\ last = NoCall
    /\ scen = "off"
    /\ ncalls = 0
    /\ fsMu = Unlocked
    /\ pc = [p \in Procs |-> "idle"]
    /\ inCall = [p \in Procs |-> NoCall]

MarkerSubscribeCall ==
    \E u \in MarkerUsers, th \in Threads :
        LET r == Subscribe(fs, U2, RepoR, th.Type, th.ID, <<u>>)
        IN  Return(Call("Subscribe", <<U2, RepoR, th, <<u>>>>, r), r, "off")

MarkerNotifyCall ==
    \E th \in Threads :
        \E order \in Orders(subscribersOf(fs, RepoR, th.Type, th.ID).users) :
            LET nr == Request("Issue 1", U1, 0)
                r  == Notify(fs, U2, RepoR, th.Type, th.ID, nr, order, NoFault)
            IN  Return(Call("Notify", <<U2, RepoR, th, nr, NoFault, <<>>>>, r), r, "off")

MarkerNext == MarkerSubscribeCall \/ MarkerNotifyCall

MarkerSpec == MarkerInit /\ [][MarkerNext]_vars

----------------------------------------------------------------------------
(* The service called for a repository whose URI is that of another          *)
(* repository followed by "/" and the directory name of one of its threads:  *)
(* subscribersDir joins the URI and the thread's name into one path.         *)

NestedRepo == [URI |-> <<"r", "/", "i", "-", "1">>]
ScopeRepos == {RepoR, NestedRepo}

ScopeInit ==
    /\ fs = PreparedStore
    /\ now = 0
    /\ prev = fs
    /\ last = NoCall
    /\ scen = "off"
    /\ ncalls = 0
    /\ fsMu = Unlocked
    /\ pc = [p \in Procs |-> "idle"]
    /\ inCall = [p \in Procs |-> NoCall]

\* Subscribe is called for the scopes of the nested repository only
ScopeSubscribeCall ==
    \E u \in {U1, U3}, th \in Threads :
        LET r == Subscribe(fs, U2, NestedRepo, th.Type, th.ID, <<u>>)
        IN  Return(Call("Subscribe", <<U2, NestedRepo, th, <<u>>>>, r), r, "off")

ScopeNotifyCall ==
    \E repo \in ScopeRepos, th \in Threads :
        \E order \in Orders(subscribersOf(fs, repo, th.Type, th.ID).users) :
            LET nr == Request("Issue 1", U1, 0)
                r  == Notify(fs, U2, repo, th.Type, th.ID, nr, order, NoFault)
            IN  Return(Call("Notify", <<U2, repo, th, nr, NoFault, <<>>>>, r), r, "off")

ScopeNext == ScopeSubscribeCall \/ ScopeNotifyCall

ScopeSpec == ScopeInit /\ [][ScopeNext]_vars

----------------------------------------------------------------------------

(* fs: the non-archiving service, which has no read area, no lock and no    *)
(* housekeeping.  Its tree has one subscribers directory per thread, and    *)
(* Notify writes into the recipient's unread directory without making it.   *)

\* the on-disk notification that the non-archiving Notify encodes
plainNotification(repo, nr) ==
    [RepoSpec |-> [URI |-> repo.URI],
     Title |-> nr.Title,
     HTMLURL |-> nr.HTMLURL,
     UpdatedAt |-> nr.UpdatedAt,
     Icon |-> nr.Icon,
     Color |-> [R |-> nr.Color.R, G |-> nr.Color.G, B |-> nr.Color.B]]

\* the non-archiving Notify's loop over the directory listing
RECURSIVE plainNotifyLoop(_, _, _, _, _, _, _)
plainNotifyLoop(f, names, currentUser, repo, appID, threadID, nr) ==
    IF names = <<>> THEN Result(f, "nil", <<>>, <<>>)
    ELSE LET sub == unmarshalUserSpec(Head(names))
             wr  == jsonEncodeFile(f, notificationPath(sub.us,
                                          notificationKey(repo, appID, threadID)),
                                   plainNotification(repo, nr))
         IN  IF ~sub.ok \/ (currentUser.ID # 0 /\ sub.us = currentUser)
             THEN plainNotifyLoop(f, Tail(names), currentUser, repo, appID,
                                  threadID, nr)
             ELSE IF wr.err # "nil" THEN Result(wr.fs, "error writing", <<>>, <<>>)
             ELSE plainNotifyLoop(wr.fs, Tail(names), currentUser, repo, appID,
                                  threadID, nr)

\* service.Notify of the non-archiving service, for a thread with an id
NonArchivingNotify(f, currentUser, appID, repo, threadID, nr) ==
    LET fis == ReadDir(f, subscribersDir(repo, appID, threadID))
    IN  IF "err" \in DOMAIN currentUser THEN Result(f, currentUser.err, <<>>, <<>>)
        ELSE IF IsNotExist(fis.err) THEN Result(f, "nil", <<>>, <<>>)
        ELSE IF fis.err # "nil" THEN Result(f, fis.err, <<>>, <<>>)
        ELSE plainNotifyLoop(f, fis.names, currentUser, repo, appID, threadID, nr)

\* variant of the non-archiving MarkRead that moves the record to the read area
NonArchivingMarkRead_Move(f, currentUser, appID, repo, threadID) ==
    LET key == notificationKey(repo, appID, threadID)
        mk  == MkdirAll(f, readDir(currentUser))
        mv  == Rename(mk.fs, notificationPath(currentUser, key),
                      readPath(currentUser, key))
    IN  IF authError(currentUser) # "nil"
        THEN Result(f, authError(currentUser), <<>>, <<>>)
        ELSE IF mv.err # "nil" THEN Result(f, "nil", <<>>, <<>>)
        ELSE Result(mv.fs, "nil", <<mv.fs>>, <<>>)

\* service.MarkRead of the non-archiving service
NonArchivingMarkRead(f, currentUser, appID, repo, threadID) ==
    LET rm == RemoveAll(f, notificationPath(currentUser,
                               notificationKey(repo, appID, threadID)))
    IN  IF authError(currentUser) # "nil"
        THEN Result(f, authError(currentUser), <<>>, <<>>)
        ELSE IF rm.err # "nil" THEN Result(rm.fs, rm.err, <<>>, <<>>)
        ELSE Result(rm.fs, "nil", <<rm.fs>>, <<>>)

Issue2 == [Type |-> <<"i">>, ID |-> 2]
PlainThreads == {Issue1, Issue2}

\* stores of the non-archiving service: U1 and U2 are subscribed to thread 1
\* and U1 to thread 2; the unread directory of U1, or of both, has been made
PlainMarkers ==
    Subscribe(Subscribe(Mkdir(EmptyStore, << <<"notifications">> >>).fs,
                        U2, RepoR, Issue1.Type, Issue1.ID, <<U1, U2>>).fs,
              U2, RepoR, Issue2.Type, Issue2.ID, <<U1>>).fs
PlainStores ==
    {Mkdir(PlainMarkers, notificationsDir(U1)).fs,
     Mkdir(Mkdir(PlainMarkers, notificationsDir(U1)).fs, notificationsDir(U2)).fs}

NonArchivingInit ==
    /\ fs \in PlainStores
    /\ now = 0
    /\ prev = fs
    /\ last = NoCall
    /\ scen = "off"
    /\ ncalls = 0
    /\ fsMu = Unlocked
    /\ pc = [p \in Procs |-> "idle"]
    /\ inCall = [p \in Procs |-> NoCall]

NonArchivingNotifyCall ==
    \E c \in Users, th \in PlainThreads, nr \in Requests :
        LET r == NonArchivingNotify(fs, c, th.Type, RepoR, th.ID, nr)
        IN  Return(Call("Notify", <<c, RepoR, th, nr>>, r), r, "off")

NonArchivingMarkReadCall ==
    \E c \in Users \cup {Anonymous}, th \in PlainThreads :
        LET r == NonArchivingMarkRead(fs, c, th.Type, RepoR, th.ID)
        IN  Return(Call("MarkRead", <<c, RepoR, th>>, r), r, "off")

NonArchivingNext == NonArchivingNotifyCall \/ NonArchivingMarkReadCall

NonArchivingSpec == NonArchivingInit /\ [][NonArchivingNext]_vars

----------------------------------------------------------------------------
(* List with opt.All step by step: goroutines that hold the read side of    *)
(* s.fsMu run the read half of List (fs.go 79-132) one store operation at   *)
(* a time.  The unread half reads an area that no List changes and is one   *)
(* step.  inCall[p] holds the locals of goroutine p: the rest of the        *)
(* directory listing it ranges over, and the error it returns.              *)

ListProcs == {1, 2}

\* MarkAllRead by U1 for both repositories: every delivered record is read
AllMarked(f) == MarkAllRead(MarkAllRead(f, U1, RepoR).fs, U1, RepoS).fs

ListInit ==
    /\ fs \in {AllMarked(Delivered(SubscribedStore, d)) : d \in DeliveredRefs}
    /\ now \in {0, RetentionDays + 1}
    /\ prev = fs
    /\ last = NoCall
    /\ scen = "off"
    /\ ncalls = 0
    /\ fsMu = Unlocked
    /\ pc = [p \in Procs |-> "idle"]
    /\ inCall = [p \in Procs |-> NoCall]

\* goroutine p goes to position to with the listing fis and the error e
ListGoto(p, to, fis, e) ==
    /\ pc' = [pc EXCEPT ![p] = to]
    /\ inCall' = [inCall EXCEPT ![p] = [@ EXCEPT !.fis = fis, !.err = e]]

\* the position after the record at the head of the listing fis
AfterRecord(fis) == IF Tail(fis) = <<>> THEN "tidy" ELSE "decode"

\* List is called by U1 with opt.All: RLock, then the loop over the unread area
ListUnread ==
    \E p \in ListProcs :
        LET opt    == [Repo |-> NoFilter, All |-> TRUE]
            upto   == List(fs, U1, [opt EXCEPT !.All = FALSE], now)
        IN  /\ pc[p] = "idle"
            /\ ncalls < MaxCalls
            /\ ~fsMu.writer
            /\ ncalls' = ncalls + 1
            /\ fsMu' = [fsMu EXCEPT !.readers = @ + 1]
            /\ pc' = [pc EXCEPT ![p] = IF upto.err = "nil" THEN "readdir" ELSE "return"]
            /\ inCall' = [inCall EXCEPT ![p] =
                             [op |-> "List", in |-> <<U1, opt>>, err |-> upto.err,
                              fis |-> <<>>]]
            /\ UNCHANGED <<fs, now, prev, last, scen>>

\* vfsutil.ReadDir(readDir(currentUser))
ListReadDir ==
    \E p \in ListProcs :
        LET rd == ReadDir(fs, readDir(U1))
        IN  /\ pc[p] = "readdir"
            /\ IF rd.err # "nil" /\ ~IsNotExist(rd.err)
               THEN ListGoto(p, "return", <<>>, rd.err)
               ELSE ListGoto(p, IF rd.names = <<>> THEN "tidy" ELSE "decode",
                             rd.names, "nil")
            /\ UNCHANGED <<fs, now, prev, last, scen, ncalls, fsMu>>

\* jsonDecodeFile of the next entry of the listing, and the test of its age
ListDecode ==
    \E p \in ListProcs :
        LET fis == inCall[p].fis
            dec == jsonDecodeFile(fs, readPath(U1, Head(fis)))
        IN  /\ pc[p] = "decode"
            /\ IF dec.err # "nil" THEN ListGoto(p, "return", <<>>, "error reading")
               ELSE IF now - dec.v.UpdatedAt > RetentionDays
               THEN ListGoto(p, "remove", fis, "nil")
               ELSE ListGoto(p, AfterRecord(fis), Tail(fis), "nil")
            /\ UNCHANGED <<fs, now, prev, last, scen, ncalls, fsMu>>

\* s.fs.RemoveAll of the old read record
ListRemove ==
    \E p \in ListProcs :
        LET fis == inCall[p].fis
            rm  == RemoveAll(fs, readPath(U1, Head(fis)))
        IN  /\ pc[p] = "remove"
            /\ fs' = rm.fs
            /\ prev' = fs
            /\ IF rm.err # "nil" THEN ListGoto(p, "return", <<>>, rm.err)
               ELSE ListGoto(p, AfterRecord(fis), Tail(fis), "nil")
            /\ UNCHANGED <<now, last, scen, ncalls, fsMu>>

\* the ReadDir of the housekeeping switch
ListTidy ==
    \E p \in ListProcs :
        LET rd == ReadDir(fs, readDir(U1))
        IN  /\ pc[p] = "tidy"
            /\ IF rd.err # "nil" /\ ~IsNotExist(rd.err)
               THEN ListGoto(p, "return", <<>>, rd.err)
               ELSE IF rd.err = "nil" /\ Len(rd.names) = 0
               THEN ListGoto(p, "rmdir", <<>>, "nil")
               ELSE ListGoto(p, "return", <<>>, "nil")
            /\ UNCHANGED <<fs, now, prev, last, scen, ncalls, fsMu>>

\* s.fs.RemoveAll of the empty read directory
ListRmdir ==
    \E p \in ListProcs :
        LET rm == RemoveAll(fs, readDir(U1))
        IN  /\ pc[p] = "rmdir"
            /\ fs' = rm.fs
            /\ prev' = fs
            /\ ListGoto(p, "return", <<>>, rm.err)
            /\ UNCHANGED <<now, last, scen, ncalls, fsMu>>

\* List returns: defer s.fsMu.RUnlock()
ListReturn ==
    \E p \in ListProcs :
        /\ pc[p] = "return"
        /\ fsMu' = [fsMu EXCEPT !.readers = @ - 1]
        /\ pc' = [pc EXCEPT ![p] = "idle"]
        /\ last' = [op |-> "List", in |-> inCall[p].in, err |-> inCall[p].err]
        /\ inCall' = [inCall EXCEPT ![p] = NoCall]
        /\ UNCHANGED <<fs, now, prev, scen, ncalls>>

ListNext ==
    \/ ListUnread
    \/ ListReadDir
    \/ ListDecode
    \/ ListRemove
    \/ ListTidy
    \/ ListRmdir
    \/ ListReturn

ListSpec == ListInit /\ [][ListNext]_vars

----------------------------------------------------------------------------
(* Vocabulary of the properties *)

\* the keys and the records of a user's unread and read areas
UnreadKeys(f, u) == ChildNames(f, notificationsDir(u))
ReadKeys(f, u) == ChildNames(f, readDir(u))
UnreadArea(f, u) == [k \in UnreadKeys(f, u) |-> f[notificationsDir(u) \o <<k>>]]
ReadArea(f, u) == [k \in ReadKeys(f, u) |-> f[readDir(u) \o <<k>>]]

\* no key of any user is in both areas of store f
OneAreaPerKey(f) == \A u \in Users : UnreadKeys(f, u) \cap ReadKeys(f, u) = {}

\* the runs the last call can have been (Notify ranges over a Go map)
LastRuns == RunsOf(last, prev, now)

\* the stores the last call passed through, one per store operation
LastSteps == UNION {Range(r.steps) : r \in LastRuns}

\* the last call was a Notify that returned no error
Notified == last.op = "Notify" /\ last.err = "nil"
NCaller == last.in[1]
NRepo == last.in[2]
NThread == last.in[3]
NRequest == last.in[4]
NKey == notificationKey(NRepo, NThread.Type, NThread.ID)

\* u holds a marker file in the scope (repo, th) of store f
HasMarker(f, repo, th, u) ==
    LET p == subscriberPath(repo, th.Type, th.ID, u)
    IN  p \in DOMAIN f /\ f[p].kind = "file"

\* repo watchers and thread subscribers of the notified thread before the call
Interested ==
    {u \in Users : HasMarker(prev, NRepo, WholeRepo, u)
                      \/ HasMarker(prev, NRepo, NThread, u)}

\* record d carries exactly the content supplied to the last Notify
Supplied(d) ==
    /\ d.RepoSpec = NRepo
    /\ d.ThreadType = NThread.Type
    /\ d.ThreadID = NThread.ID
    /\ d.Title = NRequest.Title
    /\ d.Icon = NRequest.Icon
    /\ d.Color = NRequest.Color
    /\ d.Actor = NRequest.Actor
    /\ d.UpdatedAt = NRequest.UpdatedAt
    /\ d.HTMLURL = NRequest.HTMLURL

\* u's unread area holds a record for the notified key with the supplied content
HoldsSupplied(f, u) ==
    /\ NKey \in UnreadKeys(f, u)
    /\ UnreadArea(f, u)[NKey].kind = "file"
    /\ UnreadArea(f, u)[NKey].data # <<>>
    /\ Supplied(UnreadArea(f, u)[NKey].data[1])

----------------------------------------------------------------------------
(* C1: in every reachable store, and in every store a call passes through   *)
(* between two of its store operations, no key of any user has a record in  *)
(* both the unread area and the read area of that user.                     *)

C1_OneAreaPerKey ==
    /\ OneAreaPerKey(fs)
    /\ \A g \in LastSteps : OneAreaPerKey(g)

\* a Notify has delivered a key that the recipient had in the read area
C1_Witness ==
    /\ Notified
    /\ \E u \in Users : NKey \in ReadKeys(prev, u) /\ NKey \in UnreadKeys(fs, u)

----------------------------------------------------------------------------
(* The end-to-end scenario on the prepared store: Subscribe(r, "i", 1,     *)
(* [U1]), then Notify(r, "i", 1) titled "Issue 1" by U2, then MarkRead(r,  *)
(* "i", 1) by U1; scen tells how far it has got.  List and Count calls     *)
(* without includeRead, and the passing of time, may come in between.      *)

AllUnread == [Repo |-> NoFilter, All |-> FALSE]
WithRead == [Repo |-> NoFilter, All |-> TRUE]

\* what List would return to U1 in the current state
ListU1(opt) == List(fs, U1, opt, now)

\* ns is exactly one notification, titled "Issue 1", with the given read flag
OneIssue1(r, read) ==
    /\ r.err = "nil"
    /\ Len(r.out) = 1
    /\ r.out[1].Title = "Issue 1"
    /\ r.out[1].Read = read

Issue1Key == notificationKey(RepoR, Issue1.Type, Issue1.ID)

\* days since the update time of U1's read record of the scenario's thread
Issue1Age == now - ReadArea(fs, U1)[Issue1Key].data[1].UpdatedAt

(* C2 as stated: after the Notify, List(U1) is one unread "Issue 1"; after  *)
(* the MarkRead, List(U1) is empty and List(U1, includeRead) is one read    *)
(* "Issue 1".                                                               *)
C2_AsStated ==
    /\ scen = "notified" => OneIssue1(ListU1(AllUnread), FALSE)
    /\ scen = "marked" =>
          /\ ListU1(AllUnread).err = "nil" /\ ListU1(AllUnread).out = <<>>
          /\ OneIssue1(ListU1(WithRead), TRUE)

(* C2, amended: the same, the last part provided that the notification's    *)
(* update time is not more than 30 days before the List call; an older one  *)
(* is not returned.                                                         *)
C2_EndToEnd ==
    /\ scen = "notified" => OneIssue1(ListU1(AllUnread), FALSE)
    /\ scen = "marked" =>
          /\ ListU1(AllUnread).err = "nil" /\ ListU1(AllUnread).out = <<>>
          /\ Issue1Key \in ReadKeys(fs, U1)
          /\ Issue1Age <= RetentionDays => OneIssue1(ListU1(WithRead), TRUE)
          /\ Issue1Age > RetentionDays =>
                ListU1(WithRead).err = "nil" /\ ListU1(WithRead).out = <<>>

\* the scenario has run to its end and the notification is within retention
C2_Witness ==
    /\ scen = "marked"
    /\ last.op = "MarkRead"
    /\ Issue1Age <= RetentionDays
    /\ Len(ListU1(WithRead).out) = 1

----------------------------------------------------------------------------
(* C3 as stated: after a Notify by caller C that returned no error, the     *)
(* users whose unread area holds a record for the key with exactly the      *)
(* supplied content are the repo watchers and thread subscribers other      *)
(* than C, and no other user's unread or read area is changed.              *)

Recipients == Interested \ {NCaller}

C3_AsStated ==
    Notified =>
        /\ {u \in Users : HoldsSupplied(fs, u)} = Recipients
        /\ \A u \in Users \ Recipients :
              /\ UnreadArea(fs, u) = UnreadArea(prev, u)
              /\ ReadArea(fs, u) = ReadArea(prev, u)

(* C3, amended: the users other than C whose unread area holds such a       *)
(* record are the repo watchers and thread subscribers other than C, and    *)
(* no other user's unread or read area, C's included, is changed: C may     *)
(* hold a record with the same content from an earlier Notify.              *)
C3_Recipients ==
    Notified =>
        /\ {u \in Users \ {NCaller} : HoldsSupplied(fs, u)} = Recipients
        /\ \A u \in Users \ Recipients :
              /\ UnreadArea(fs, u) = UnreadArea(prev, u)
              /\ ReadArea(fs, u) = ReadArea(prev, u)

\* a Notify delivered to a watcher while a user of no interest held records
C3_Witness ==
    /\ Notified
    /\ Recipients # {}
    /\ \E u \in Users \ Interested : UnreadKeys(prev, u) # {}

----------------------------------------------------------------------------
(* C4: a Notify called by user A, whatever it returns, leaves A's unread    *)
(* area as it was, also in every store the call passes through, even when   *)
(* A is a repo watcher or thread subscriber of the notified thread.         *)

C4_NotOwnAction ==
    last.op = "Notify" =>
        /\ UnreadArea(fs, NCaller) = UnreadArea(prev, NCaller)
        /\ \A g \in LastSteps : UnreadArea(g, NCaller) = UnreadArea(prev, NCaller)

\* the caller is itself interested in the thread, and another user was notified
C4_Witness ==
    /\ Notified
    /\ NCaller \in Interested
    /\ \E u \in Recipients : HoldsSupplied(fs, u)

----------------------------------------------------------------------------
(* C5 as stated: the record written for a recipient has participating true  *)
(* if the recipient holds a thread-scope marker for the notified thread,    *)
(* and false if it is only a repo-scope watcher.  A marker of the whole     *)
(* repository (empty type, zero id) is repo-scope, not thread-scope.        *)

ThreadSubscriber(u) == NThread # WholeRepo /\ HasMarker(prev, NRepo, NThread, u)

C5_AsStated ==
    Notified =>
        \A u \in Recipients :
            /\ NKey \in UnreadKeys(fs, u)
            /\ UnreadArea(fs, u)[NKey].data[1].Participating = ThreadSubscriber(u)

\* the same for the threads that are not the whole repository
C5_ProperThreads ==
    (Notified /\ NThread # WholeRepo) =>
        \A u \in Recipients :
            /\ NKey \in UnreadKeys(fs, u)
            /\ UnreadArea(fs, u)[NKey].data[1].Participating = ThreadSubscriber(u)

----------------------------------------------------------------------------
(* C6: when a Notify that returned no error delivers key K to a recipient   *)
(* who had K in the read area, then List of that recipient shows K unread,  *)
(* the read area no longer holds K, and List with includeRead shows K       *)
(* exactly once.                                                            *)

\* the positions of the notified thread in the list ns
NotifiedIn(ns) ==
    {i \in 1..Len(ns) : /\ ns[i].RepoSpec = NRepo
                         /\ ns[i].ThreadType = NThread.Type
                         /\ ns[i].ThreadID = NThread.ID}

Resurfaced(u) == Notified /\ u \in Recipients /\ NKey \in ReadKeys(prev, u)

C6_Resurrection ==
    \A u \in Users :
        Resurfaced(u) =>
            LET lu == List(fs, u, AllUnread, now)
                la == List(fs, u, WithRead, now)
            IN  /\ lu.err = "nil"
                /\ \E i \in NotifiedIn(lu.out) : ~lu.out[i].Read
                /\ NKey \notin ReadKeys(fs, u)
                /\ la.err = "nil"
                /\ Cardinality(NotifiedIn(la.out)) = 1

\* a key that its recipient had marked read was notified again
C6_Witness ==
    \E u \in Users : Resurfaced(u) /\ NKey \in UnreadKeys(fs, u)

----------------------------------------------------------------------------
(* C7: MarkRead by an authenticated caller who has no unread record for     *)
(* the key returns no error and leaves the whole store as it was, without   *)
(* performing any store operation that changes it.                          *)

MCaller == last.in[1]
MKey == notificationKey(last.in[2], last.in[3].Type, last.in[3].ID)

C7_MarkReadNoOp ==
    (last.op = "MarkRead" /\ MCaller.ID # 0 /\ MKey \notin UnreadKeys(prev, MCaller)) =>
        /\ last.err = "nil"
        /\ fs = prev
        /\ LastSteps = {}

\* MarkRead of a key that an earlier MarkRead has already moved
C7_Witness ==
    /\ last.op = "MarkRead"
    /\ MCaller.ID # 0
    /\ MKey \notin UnreadKeys(prev, MCaller)
    /\ MKey \in ReadKeys(prev, MCaller)

\* MarkRead of a key never notified, by a caller without a read directory
C7_WitnessNoReadDir ==
    /\ last.op = "MarkRead"
    /\ MCaller.ID # 0
    /\ MKey \notin UnreadKeys(prev, MCaller)
    /\ UnreadKeys(prev, MCaller) # {}
    /\ readDir(MCaller) \notin DOMAIN fs

----------------------------------------------------------------------------
(* C8: a MarkRead that returned no error on a key with an unread record     *)
(* leaves that record, unchanged, in the caller's read area and not in the  *)
(* unread area, changes no other record of any user and no marker, and in   *)
(* every store it passes through the record is in exactly one of the areas. *)

\* f restricted to the keys other than k
Without(area, k) == [j \in (DOMAIN area) \ {k} |-> area[j]]

\* the subscription markers of store f
Markers(f) ==
    [p \in {q \in DOMAIN f : IsPrefix(<< <<"subscribers">> >>, q)} |-> f[p]]

\* in store g exactly one area of the caller holds record d under key k
InOneArea(g, u, k, d) ==
    \/ /\ k \in UnreadKeys(g, u) /\ UnreadArea(g, u)[k] = d
       /\ k \notin ReadKeys(g, u)
    \/ /\ k \in ReadKeys(g, u) /\ ReadArea(g, u)[k] = d
       /\ k \notin UnreadKeys(g, u)

C8_MarkReadMoves ==
    (last.op = "MarkRead" /\ last.err = "nil" /\ MKey \in UnreadKeys(prev, MCaller)) =>
        /\ MKey \in ReadKeys(fs, MCaller)
        /\ ReadArea(fs, MCaller)[MKey] = UnreadArea(prev, MCaller)[MKey]
        /\ MKey \notin UnreadKeys(fs, MCaller)
        /\ Without(UnreadArea(fs, MCaller), MKey) = Without(UnreadArea(prev, MCaller), MKey)
        /\ Without(ReadArea(fs, MCaller), MKey) = Without(ReadArea(prev, MCaller), MKey)
        /\ \A u \in Users \ {MCaller} :
              /\ UnreadArea(fs, u) = UnreadArea(prev, u)
              /\ ReadArea(fs, u) = ReadArea(prev, u)
        /\ Markers(fs) = Markers(prev)
        /\ \A g \in LastSteps :
              InOneArea(g, MCaller, MKey, UnreadArea(prev, MCaller)[MKey])

\* a record was moved while the caller kept another unread record
C8_Witness ==
    /\ last.op = "MarkRead" /\ last.err = "nil"
    /\ MKey \in UnreadKeys(prev, MCaller)
    /\ MKey \in ReadKeys(fs, MCaller)
    /\ UnreadKeys(fs, MCaller) # {}

----------------------------------------------------------------------------
(* C9: after a MarkAllRead(caller, r) that returned no error, every         *)
(* decodable record of the caller's unread area whose RepoSpec is r is in   *)
(* the caller's read area, unchanged, and is no longer unread.              *)

ACaller == last.in[1]
ARepo == last.in[2]
Decodable(node) == node.kind = "file" /\ node.data # <<>>

\* the caller's unread keys, before the call, of the records of repo
KeysOfRepo(repo) ==
    {k \in UnreadKeys(prev, ACaller) :
        /\ Decodable(UnreadArea(prev, ACaller)[k])
        /\ UnreadArea(prev, ACaller)[k].data[1].RepoSpec = repo}

C9_MarkAllReadMoves ==
    (last.op = "MarkAllRead" /\ last.err = "nil") =>
        \A k \in KeysOfRepo(ARepo) :
            /\ k \in ReadKeys(fs, ACaller)
            /\ ReadArea(fs, ACaller)[k] = UnreadArea(prev, ACaller)[k]
            /\ k \notin UnreadKeys(fs, ACaller)

\* MarkAllRead moved two records of the repository
C9_Witness ==
    /\ last.op = "MarkAllRead" /\ last.err = "nil"
    /\ Cardinality(KeysOfRepo(ARepo)) >= 2

----------------------------------------------------------------------------
(* C10: MarkAllRead(caller, r), whatever it returns, leaves every unread    *)
(* record of the caller whose RepoSpec is not r in the unread area,         *)
(* unchanged, and changes no record of any other user.                      *)

C10_MarkAllReadScope ==
    last.op = "MarkAllRead" =>
        /\ \A repo \in Repos \ {ARepo} :
              \A k \in KeysOfRepo(repo) :
                  /\ k \in UnreadKeys(fs, ACaller)
                  /\ UnreadArea(fs, ACaller)[k] = UnreadArea(prev, ACaller)[k]
        /\ \A u \in Users \ {ACaller} :
              /\ UnreadArea(fs, u) = UnreadArea(prev, u)
              /\ ReadArea(fs, u) = ReadArea(prev, u)

\* the caller had unread records of r and of another repository
C10_Witness ==
    /\ last.op = "MarkAllRead" /\ last.err = "nil"
    /\ KeysOfRepo(ARepo) # {}
    /\ \E repo \in Repos \ {ARepo} : KeysOfRepo(repo) # {}

----------------------------------------------------------------------------
(* C11: a List with includeRead that returns no error does not return a     *)
(* read record of the caller whose update time is more than 30 days before  *)
(* the call and deletes it from the store; a List right after it does not   *)
(* return it either, and no step other than a Notify brings a key that is   *)
(* in neither area of a user back into one of them.                         *)

LCaller == last.in[1]
LOptions == last.in[2]

\* key under which the listed notification n is stored
KeyOf(n) == notificationKey(n.RepoSpec, n.ThreadType, n.ThreadID)

\* the keys of the notifications in the list ns
KeysIn(ns) == {KeyOf(ns[i]) : i \in 1..Len(ns)}

\* the keys of u's read records in store f that are past retention at time t
Expired(f, u, t) ==
    {k \in ReadKeys(f, u) :
        /\ ReadArea(f, u)[k].kind = "file" /\ ReadArea(f, u)[k].data # <<>>
        /\ t - ReadArea(f, u)[k].data[1].UpdatedAt > RetentionDays}

\* the last step was a List with includeRead that returned no error
ListedAll == last.op = "List" /\ last.err = "nil" /\ LOptions.All

\* keys that are in neither area of u in store f
Absent(f, u) == {k \in UnreadKeys(prev, u) \cup ReadKeys(prev, u)
                        \cup UnreadKeys(fs, u) \cup ReadKeys(fs, u) :
                    k \notin UnreadKeys(f, u) \cup ReadKeys(f, u)}

C11_RetentionExpiry ==
    /\ ListedAll =>
          \A k \in Expired(prev, LCaller, now) :
              /\ \A r \in LastRuns : k \notin KeysIn(r.out)
              /\ k \notin ReadKeys(fs, LCaller)
              /\ k \notin UnreadKeys(fs, LCaller)
              /\ \A opt \in ListOptions :
                    k \notin KeysIn(List(fs, LCaller, opt, now).out)
    /\ last.op # "Notify" =>
          \A u \in Users : Absent(prev, u) \subseteq Absent(fs, u)

\* a List with includeRead found a read record of the caller past retention
C11_Witness ==
    /\ ListedAll
    /\ Expired(prev, LCaller, now) # {}

----------------------------------------------------------------------------
(* C12 as stated: the notifications that List returns are in descending     *)
(* order of update time: of two adjacent results the earlier one's update   *)
(* time is not before the later one's.                                      *)

Descending(ns) ==
    \A i \in 1..(Len(ns) - 1) : ns[i].UpdatedAt >= ns[i + 1].UpdatedAt

C12_AsStated ==
    (last.op = "List" /\ last.err = "nil") =>
        \A r \in LastRuns : Descending(r.out)

----------------------------------------------------------------------------
(* C13: List, Count, MarkRead and MarkAllRead called with the zero caller   *)
(* identity return the permission error, called when the identity cannot    *)
(* be resolved return the resolver's error, and in both cases perform no    *)
(* store operation and leave the store as it was.                           *)

Guarded == {"List", "Count", "MarkRead", "MarkAllRead"}

C13_PermissionDenied ==
    (last.op \in Guarded /\ last.in[1] \notin Users) =>
        /\ last.in[1] = Anonymous => last.err = "ErrPermission"
        /\ last.in[1] = Unresolved => last.err = Unresolved.err
        /\ fs = prev
        /\ LastSteps = {}

\* MarkAllRead without an authenticated caller on a store that holds a read
\* record
C13_Witness ==
    /\ last.op = "MarkAllRead"
    /\ last.in[1] = Anonymous
    /\ last.err = "ErrPermission"
    /\ \E u \in Users : ReadKeys(fs, u) # {}

\* List with includeRead when the identity cannot be resolved
C13_WitnessUnresolved ==
    /\ last.op = "List"
    /\ last.in[1] = Unresolved
    /\ last.err = Unresolved.err
    /\ \E u \in Users : UnreadKeys(fs, u) # {}

----------------------------------------------------------------------------
(* C14: Count by an authenticated caller returns no error and the number    *)
(* of entries of the caller's unread area, performs no store operation and  *)
(* leaves the store as it was, expired read records included; the result    *)
(* is the same on the store without its read area.                          *)

CCaller == last.in[1]

\* store f without the read area
WithoutRead(f) == Prune(f, << <<"read">> >>)

C14_CountUnread ==
    (last.op = "Count" /\ CCaller \in Users) =>
        /\ last.err = "nil"
        /\ \A r \in LastRuns :
              /\ r.out = Cardinality(UnreadKeys(prev, CCaller))
              /\ r.out = Count(WithoutRead(prev), CCaller).out
        /\ fs = prev
        /\ LastSteps = {}
        /\ Expired(fs, CCaller, now) = Expired(prev, CCaller, now)

\* Count of a caller with two unread records
C14_Witness ==
    /\ last.op = "Count" /\ CCaller \in Users
    /\ Cardinality(UnreadKeys(prev, CCaller)) = 2
    /\ Count(fs, CCaller).out = 2

\* Count of a caller who has a read record past retention
C14_WitnessExpired ==
    /\ last.op = "Count" /\ CCaller \in Users
    /\ Expired(fs, CCaller, now) # {}

----------------------------------------------------------------------------
(* C15: at every moment either at most one of Notify, Subscribe, MarkRead   *)
(* and MarkAllRead is inside its critical section and no List or Count is,  *)
(* or no writer is inside and any number of List and Count calls are.       *)

\* the goroutines inside the critical section of a call among ops
Inside(ops) ==
    {p \in Procs : pc[p] \in {"inside", "return"} /\ inCall[p].op \in ops}

WritersInside == Inside({"Notify", "Subscribe", "MarkRead", "MarkAllRead"})
ReadersInside == Inside({"List", "Count"})

C15_LockDiscipline ==
    \/ Cardinality(WritersInside) <= 1 /\ ReadersInside = {}
    \/ WritersInside = {}

\* two readers are inside together while a writer waits
C15_Witness ==
    /\ Cardinality(ReadersInside) >= 2
    /\ \E p \in Procs : pc[p] = "wait" /\ inCall[p].op = "Notify"

\* a writer is inside while a reader and another writer wait
C15_WitnessWriter ==
    /\ Cardinality(WritersInside) = 1
    /\ \E p \in Procs : pc[p] = "wait" /\ inCall[p].op = "List"
    /\ \E p \in Procs : pc[p] = "wait" /\ inCall[p].op = "MarkRead"

----------------------------------------------------------------------------
(* C16: after a Subscribe that returned no error, the same Subscribe        *)
(* returns no error and leaves the store as it is; the call kept every      *)
(* node that existed, markers included, and every listed subscriber has     *)
(* its marker, below directories that exist.                                *)

SCaller == last.in[1]
SRepo == last.in[2]
SThread == last.in[3]
SSubscribers == last.in[4]

\* the same Subscribe, called on the current store
SubscribeAgain ==
    Subscribe(fs, SCaller, SRepo, SThread.Type, SThread.ID, SSubscribers)

\* every directory above path p exists in store f
ParentsExist(f, p) ==
    \A n \in 1..(Len(p) - 1) : IsDirAt(f, SubSeq(p, 1, n))

C16_SubscribeIdempotent ==
    (last.op = "Subscribe" /\ last.err = "nil") =>
        /\ SubscribeAgain.err = "nil"
        /\ SubscribeAgain.fs = fs
        /\ Range(SubscribeAgain.steps) \subseteq {fs}
        /\ \A p \in DOMAIN prev : p \in DOMAIN fs /\ fs[p] = prev[p]
        /\ \A i \in 1..Len(SSubscribers) :
              /\ HasMarker(fs, SRepo, SThread, SSubscribers[i])
              /\ ParentsExist(fs, subscriberPath(SRepo, SThread.Type, SThread.ID,
                                                 SSubscribers[i]))

\* a Subscribe that found all its markers in place
C16_Witness ==
    /\ last.op = "Subscribe" /\ last.err = "nil"
    /\ Len(SSubscribers) = 2
    /\ \A i \in 1..Len(SSubscribers) :
          HasMarker(prev, SRepo, SThread, SSubscribers[i])
    /\ fs = prev

\* a Subscribe on a store without the directories of the markers
C16_WitnessParents ==
    /\ last.op = "Subscribe" /\ last.err = "nil"
    /\ ~IsDirAt(prev, << <<"subscribers">> >>)
    /\ SThread = Issue1

----------------------------------------------------------------------------
(* C17: when the store fails an operation of Notify's loop for a recipient, *)
(* Notify returns an error; and when Notify returns an error to an          *)
(* authenticated caller, then for some order of the loop and some recipient *)
(* at which it stopped, every recipient visited before that one holds the   *)
(* new unread record and no read record of the key, every recipient after   *)
(* it has its areas as they were, and the unread area of the recipient at   *)
(* which it stopped is as it was: the write is not tried again.  On a store *)
(* that has the notifications directory the loop stops at the recipient     *)
(* for whom the store failed.                                               *)

NFault == last.in[5]
\* the order in which the loop visited the subscribers when the store failed
NVisited == last.in[6]
FUser == NFault.user[1]

\* the last step was a Notify during which the store failed for a recipient
Faulted ==
    /\ last.op = "Notify"
    /\ NFault # NoFault
    /\ FUser \in Recipients

\* u comes before v in the sequence order
Before(order, u, v) ==
    \E i, j \in 1..Len(order) : i < j /\ order[i] = u /\ order[j] = v

\* Notify's result when the loop visits the subscribers in the given order
NotifyIn(order) ==
    Notify(prev, NCaller, NRepo, NThread.Type, NThread.ID, NRequest, order, NFault)

SameAreas(u) ==
    /\ UnreadArea(fs, u) = UnreadArea(prev, u)
    /\ ReadArea(fs, u) = ReadArea(prev, u)

\* the loop, run in the given order, stopped at recipient v
StoppedAt(order, v) ==
    /\ NotifyIn(order).fs = fs
    /\ NotifyIn(order).err = last.err
    /\ UnreadArea(fs, v) = UnreadArea(prev, v)
    /\ \A u \in Recipients \ {v} :
          IF Before(order, u, v)
          THEN HoldsSupplied(fs, u) /\ NKey \notin ReadKeys(fs, u)
          ELSE SameAreas(u)

C17_PartialFanOut ==
    /\ Faulted => last.err # "nil"
    /\ (Faulted /\ IsDirAt(prev, << <<"notifications">> >>)) =>
          StoppedAt(NVisited, FUser)
    /\ (last.op = "Notify" /\ authError(NCaller) = "nil" /\ last.err # "nil") =>
          \E order \in Orders(Interested) :
              \E v \in Recipients : StoppedAt(order, v)

\* the store failed after another recipient had been given the record
C17_Witness ==
    /\ Faulted
    /\ \E u \in Recipients \ {FUser} :
          HoldsSupplied(fs, u) /\ ~HoldsSupplied(prev, u)

\* the store failed before another recipient, who held records, was visited
C17_WitnessUntouched ==
    /\ Faulted
    /\ \E u \in Recipients \ {FUser} :
          SameAreas(u) /\ UnreadKeys(fs, u) # {} /\ ~HoldsSupplied(fs, u)

----------------------------------------------------------------------------
(* C18 as stated: for every user and key, a step leaves the record where    *)
(* it is, or is a Notify that leaves it unread, or a MarkRead or            *)
(* MarkAllRead of that user that takes it from unread to read, or a List    *)
(* with includeRead of that user that takes it from read to absent; List    *)
(* leaves every unread record as it is.                                     *)

\* where the record of user u and key k is in store f
Place(f, u, k) ==
    IF k \in UnreadKeys(f, u) THEN "unread"
    ELSE IF k \in ReadKeys(f, u) THEN "read"
    ELSE "absent"

\* the keys of user u before or after the last step
KeysOf(u) ==
    UnreadKeys(prev, u) \cup ReadKeys(prev, u)
        \cup UnreadKeys(fs, u) \cup ReadKeys(fs, u)

\* the last step left the record of (u, k) in its place, unchanged
Stays(u, k) ==
    /\ Place(fs, u, k) = Place(prev, u, k)
    /\ Place(fs, u, k) = "unread" => UnreadArea(fs, u)[k] = UnreadArea(prev, u)[k]
    /\ Place(fs, u, k) = "read" => ReadArea(fs, u)[k] = ReadArea(prev, u)[k]

\* the changes of place the lifecycle allows
Allowed(u, k) ==
    \/ Stays(u, k)
    \/ last.op = "Notify" /\ Place(fs, u, k) = "unread"
    \/ /\ last.op \in {"MarkRead", "MarkAllRead"} /\ last.in[1] = u
       /\ Place(prev, u, k) = "unread" /\ Place(fs, u, k) = "read"
    \/ /\ last.op = "List" /\ last.in[2].All /\ last.in[1] = u
       /\ Place(prev, u, k) = "read" /\ Place(fs, u, k) = "absent"

ListKeepsUnread ==
    last.op = "List" => \A u \in Users : UnreadArea(fs, u) = UnreadArea(prev, u)

C18_WitnessFailed ==
    /\ last.op = "Notify" /\ last.err # "nil"
    /\ \E u \in Users : \E k \in KeysOf(u) :
          Place(prev, u, k) = "read" /\ Place(fs, u, k) = "absent"

----------------------------------------------------------------------------
(* C19: every step keeps every read record of every user as it is, except  *)
(* a List with includeRead called by that user and a Notify of the          *)
(* record's key that has the user among its recipients; time passing        *)
(* deletes nothing, and a List without includeRead performs no store        *)
(* operation and leaves the whole store as it was.                          *)

\* the last step was a List with includeRead called by u
PrunedBy(u) == last.op = "List" /\ last.in[2].All /\ last.in[1] = u

\* the last step was a Notify of key k with u among its recipients
Redelivered(u, k) == last.op = "Notify" /\ NKey = k /\ u \in Recipients

----------------------------------------------------------------------------
(* C20 as stated: two ThreadRefs that differ in repo, thread type or thread *)
(* id have different keys, and a Notify leaves the recipient's unread       *)
(* records of all other threads as they are.                                *)

\* the key under which the thread of record d is filed
KeyOfRecord(d) == notificationKey(d.RepoSpec, d.ThreadType, d.ThreadID)

\* record d is of the thread that the last Notify named
OfNotifiedThread(d) ==
    d.RepoSpec = NRepo /\ d.ThreadType = NThread.Type /\ d.ThreadID = NThread.ID

C20_AsStated ==
    Notified =>
        \A k \in UnreadKeys(prev, U1) :
            LET d == UnreadArea(prev, U1)[k].data[1]
            IN  OfNotifiedThread(d)
                  \/ /\ KeyOfRecord(d) # notificationKey(NRepo, NThread.Type, NThread.ID)
                     /\ k \in UnreadKeys(fs, U1)
                     /\ UnreadArea(fs, U1)[k] = UnreadArea(prev, U1)[k]

----------------------------------------------------------------------------
(* C21: List by an authenticated caller does not fail because the actor of  *)
(* a record cannot be resolved: it returns no error, it returns every       *)
(* unread record that passes the filter, and a returned notification whose  *)
(* actor the resolver does not know has the fallback identity: the actor's  *)
(* UserSpec, the login "{id}@{domain}", no avatar URL and no profile URL.   *)

\* the fallback identity of the user spec us
Fallback(us) ==
    [UserSpec |-> us,
     Login |-> formatUint64(us.ID) \o <<"@">> \o us.Domain,
     AvatarURL |-> "", HTMLURL |-> ""]

\* the caller's unread keys, before the last call, whose records pass opt
Passing(u, opt) ==
    {k \in UnreadKeys(prev, u) :
        opt.Repo = <<>> \/ UnreadArea(prev, u)[k].data[1].RepoSpec = opt.Repo[1]}

C21_ActorFallback ==
    (last.op = "List" /\ LCaller \in Users) =>
        /\ last.err = "nil"
        /\ \A r \in LastRuns :
              /\ \A i \in 1..Len(r.out) :
                    r.out[i].Actor.UserSpec \notin Resolvable
                        => r.out[i].Actor = Fallback(r.out[i].Actor.UserSpec)
              /\ \A k \in Passing(LCaller, LOptions) :
                    \E i \in 1..Len(r.out) :
                        /\ KeyOf(r.out[i]) = k
                        /\ ~r.out[i].Read
                        /\ r.out[i].Actor.UserSpec
                              = UnreadArea(prev, LCaller)[k].data[1].Actor

\* List returned a notification whose actor the resolver does not know
C21_Witness ==
    /\ last.op = "List" /\ last.err = "nil"
    /\ \E r \in LastRuns : \E i \in 1..Len(r.out) :
          /\ r.out[i].Actor.UserSpec = U2
          /\ r.out[i].Actor.Login = <<"2", "@", "x">>

----------------------------------------------------------------------------
(* C22: for an authenticated caller whose unread directory does not exist   *)
(* (and, for a List with includeRead, whose read directory does not exist   *)
(* either), List returns no error and an empty list, Count returns no       *)
(* error and 0, and MarkAllRead returns no error, performs no store         *)
(* operation and leaves the store as it was.                                *)

\* u has no unread directory, and no read directory, in store f
NoUnreadDir(f, u) == ~Exists(f, notificationsDir(u))
NoReadDir(f, u) == ~Exists(f, readDir(u))

C22_AbsentIsEmpty ==
    (last.in # <<>> /\ last.in[1] \in Users /\ NoUnreadDir(prev, last.in[1])) =>
        /\ (last.op = "List" /\ (LOptions.All => NoReadDir(prev, LCaller))) =>
              /\ last.err = "nil"
              /\ \A r \in LastRuns : r.out = <<>>
              /\ fs = prev
        /\ last.op = "Count" =>
              /\ last.err = "nil"
              /\ \A r \in LastRuns : r.out = 0
              /\ fs = prev
        /\ last.op = "MarkAllRead" =>
              /\ last.err = "nil"
              /\ fs = prev
              /\ LastSteps = {}

\* List with includeRead by a caller who has neither directory, on a store
\* in which another user has unread records
C22_Witness ==
    /\ last.op = "List" /\ LOptions.All /\ last.err = "nil"
    /\ LCaller \in Users
    /\ NoUnreadDir(prev, LCaller) /\ NoReadDir(prev, LCaller)
    /\ \E u \in Users : UnreadKeys(prev, u) # {}

\* Count, and MarkAllRead, by a caller who has no unread directory
C22_WitnessCount ==
    /\ last.op = "Count" /\ last.err = "nil"
    /\ CCaller \in Users /\ NoUnreadDir(prev, CCaller)
C22_WitnessMarkAllRead ==
    /\ last.op = "MarkAllRead" /\ last.err = "nil"
    /\ ACaller \in Users /\ NoUnreadDir(prev, ACaller)
    /\ ReadKeys(prev, ACaller) # {}

----------------------------------------------------------------------------
(* C23 as stated: every notification that List returns to its caller has    *)
(* the participating flag of the caller's stored record of the same key.    *)

\* the caller's record, before the last call, behind the listed notification n
StoredFor(u, n) ==
    IF n.Read THEN ReadArea(prev, u)[KeyOf(n)].data[1]
    ELSE UnreadArea(prev, u)[KeyOf(n)].data[1]

C23_AsStated ==
    (last.op = "List" /\ last.err = "nil" /\ LCaller \in Users) =>
        \A r \in LastRuns : \A i \in 1..Len(r.out) :
            r.out[i].Participating = StoredFor(LCaller, r.out[i]).Participating

----------------------------------------------------------------------------
(* C24: after a Notify that returned no error, a recipient who already had  *)
(* an unread record under the notified key has exactly the record this      *)
(* Notify encodes (the supplied content, and the participating flag it      *)
(* computed from the markers of the notified thread) under that key, has    *)
(* the same unread keys as before and none of them in the read area for     *)
(* that key, Count returns the same number as before, and List returns     *)
(* exactly one notification of the thread.                                  *)

\* u is a recipient of the last Notify and had an unread record of its key
Renotified(u) == Notified /\ u \in Recipients /\ NKey \in UnreadKeys(prev, u)

\* the file that the last Notify encodes for u
Encoded(u) ==
    FileNode(<<notification(NRepo, NThread.Type, NThread.ID, NRequest,
                            HasMarker(prev, NRepo, NThread, u))>>)

C24_Overwrite ==
    \A u \in Users :
        Renotified(u) =>
            LET lu == List(fs, u, AllUnread, now)
            IN  /\ HoldsSupplied(fs, u)
                /\ UnreadArea(fs, u)[NKey] = Encoded(u)
                /\ UnreadKeys(fs, u) = UnreadKeys(prev, u)
                /\ NKey \notin ReadKeys(fs, u)
                /\ Count(fs, u).out = Count(prev, u).out
                /\ lu.err = "nil"
                /\ Cardinality(NotifiedIn(lu.out)) = 1
                /\ \A i \in NotifiedIn(lu.out) : lu.out[i].Title = NRequest.Title

\* the second Notify brought other content than the record held
C24_Witness ==
    \E u \in Users :
        /\ Renotified(u)
        /\ UnreadArea(prev, u)[NKey].data[1].Title # NRequest.Title
        /\ UnreadArea(fs, u)[NKey].data[1].Title = NRequest.Title

\* the second Notify brought another participating flag than the record held
C24_WitnessFlag ==
    \E u \in Users :
        /\ Renotified(u)
        /\ ~UnreadArea(prev, u)[NKey].data[1].Participating
        /\ UnreadArea(fs, u)[NKey].data[1].Participating

----------------------------------------------------------------------------
(* C25: a MarkAllRead(caller, r) on a store where a record of the caller's  *)
(* unread area does not decode returns no error, leaves every record that   *)
(* does not decode where it is, unchanged, and moves every decodable unread *)
(* record of r to the read area.                                            *)

\* the caller's unread keys, before the last call, whose records do not decode
Undecodable(u) == {k \in UnreadKeys(prev, u) : ~Decodable(UnreadArea(prev, u)[k])}

C25_CorruptSkipped ==
    (last.op = "MarkAllRead" /\ ACaller \in Users /\ Undecodable(ACaller) # {}) =>
        /\ last.err = "nil"
        /\ \A k \in Undecodable(ACaller) :
              /\ k \in UnreadKeys(fs, ACaller)
              /\ UnreadArea(fs, ACaller)[k] = UnreadArea(prev, ACaller)[k]
              /\ k \in ReadKeys(fs, ACaller) => k \in ReadKeys(prev, ACaller)
        /\ \A k \in KeysOfRepo(ARepo) :
              /\ k \in ReadKeys(fs, ACaller)
              /\ ReadArea(fs, ACaller)[k] = UnreadArea(prev, ACaller)[k]
              /\ k \notin UnreadKeys(fs, ACaller)

\* MarkAllRead found a record that does not decode sorted before a record of
\* the repository, and moved the latter
C25_Witness ==
    /\ last.op = "MarkAllRead" /\ last.err = "nil" /\ ACaller \in Users
    /\ \E c \in Undecodable(ACaller) : \E k \in KeysOfRepo(ARepo) :
          /\ StrLess(c, k)
          /\ k \in ReadKeys(fs, ACaller)

----------------------------------------------------------------------------
(* C26: a List by an authenticated caller on a store where a record of the  *)
(* caller's unread area, or with includeRead of the read area, does not     *)
(* decode returns an error and no notifications.                            *)

\* the caller's read keys, before the last call, whose records do not decode
UndecodableRead(u) == {k \in ReadKeys(prev, u) : ~Decodable(ReadArea(prev, u)[k])}

C26_CorruptFailsList ==
    (/\ last.op = "List" /\ LCaller \in Users
     /\ \/ Undecodable(LCaller) # {}
        \/ LOptions.All /\ UndecodableRead(LCaller) # {}) =>
        /\ last.err # "nil"
        /\ \A r \in LastRuns : r.out = <<>>

\* List failed on an unread area that also holds a record that decodes
C26_Witness ==
    /\ last.op = "List" /\ last.err # "nil" /\ LCaller \in Users
    /\ Undecodable(LCaller) # {}
    /\ UnreadKeys(prev, LCaller) # Undecodable(LCaller)

\* List with includeRead failed on the read area after it had gone through
\* an unread area with a record in it
C26_WitnessRead ==
    /\ last.op = "List" /\ last.err # "nil" /\ LCaller \in Users
    /\ LOptions.All
    /\ Undecodable(LCaller) = {} /\ UnreadKeys(prev, LCaller) # {}
    /\ UndecodableRead(LCaller) # {}

----------------------------------------------------------------------------
(* C27 as stated: after a MarkRead or MarkAllRead that returned no error    *)
(* and leaves the caller without unread records the caller's unread         *)
(* directory does not exist; after a List with includeRead that returned    *)
(* no error and leaves the caller without read records the caller's read    *)
(* directory does not exist; and no store operation of any call removes an  *)
(* area directory that holds a record.                                      *)

\* the last call was a MarkRead or MarkAllRead by a user that returned no error
Marked == last.op \in {"MarkRead", "MarkAllRead"} /\ last.err = "nil"
              /\ last.in[1] \in Users

\* the stores of run r in order, from the store the call found
Passed(r) == <<prev>> \o r.steps

\* no store operation of the last call removed directory d with a record in it
KeptWhileHolding(d) ==
    \A r \in LastRuns : \A i \in 1..Len(r.steps) :
        (Exists(Passed(r)[i], d) /\ ~Exists(Passed(r)[i + 1], d))
            => ChildNames(Passed(r)[i], d) = {}

NonEmptyKept ==
    \A u \in Users : KeptWhileHolding(notificationsDir(u)) /\ KeptWhileHolding(readDir(u))

ReadDirTidied ==
    (ListedAll /\ LCaller \in Users /\ ReadKeys(fs, LCaller) = {})
        => ~Exists(fs, readDir(LCaller))

C27_AsStated ==
    /\ (Marked /\ UnreadKeys(fs, last.in[1]) = {})
          => ~Exists(fs, notificationsDir(last.in[1]))
    /\ ReadDirTidied
    /\ NonEmptyKept

(* C27: the same, for a MarkRead that found an unread record under its key; *)
(* a MarkRead that finds none returns before any store operation (C7) and   *)
(* leaves an empty unread directory, if there is one, in place.             *)

\* the last call was a MarkRead that found no unread record under its key
NothingToMark == last.op = "MarkRead" /\ MKey \notin UnreadKeys(prev, MCaller)

C27_Housekeeping ==
    /\ (Marked /\ ~NothingToMark /\ UnreadKeys(fs, last.in[1]) = {})
          => ~Exists(fs, notificationsDir(last.in[1]))
    /\ ReadDirTidied
    /\ NonEmptyKept

\* MarkRead moved the caller's last unread record and removed the directory
C27_Witness ==
    /\ Marked /\ last.op = "MarkRead"
    /\ MKey \in UnreadKeys(prev, MCaller)
    /\ ~Exists(fs, notificationsDir(MCaller))
    /\ Exists(prev, notificationsDir(MCaller))

\* MarkAllRead moved the caller's last unread records and removed the directory
C27_WitnessMarkAllRead ==
    /\ Marked /\ last.op = "MarkAllRead"
    /\ UnreadKeys(prev, ACaller) # {}
    /\ ~Exists(fs, notificationsDir(ACaller))

\* MarkAllRead moved some records and kept the directory for the others
C27_WitnessKept ==
    /\ Marked /\ last.op = "MarkAllRead"
    /\ UnreadKeys(fs, ACaller) # {}
    /\ UnreadKeys(fs, ACaller) # UnreadKeys(prev, ACaller)

\* List with includeRead pruned the caller's last read record and removed
\* the read directory
C27_WitnessList ==
    /\ ListedAll /\ LCaller \in Users
    /\ ReadKeys(prev, LCaller) # {}
    /\ ~Exists(fs, readDir(LCaller))

----------------------------------------------------------------------------
(* C28: a List by an authenticated caller that returned no error returns,   *)
(* once each, exactly: the records of the caller's unread area, with read   *)
(* flag false, and, only with includeRead, the records of the read area     *)
(* whose update time is at most 30 days back, with read flag true; in both  *)
(* cases only the records whose RepoSpec equals the repo filter, if one is  *)
(* given.  Each notification has the title, update time and thread of the   *)
(* stored record.                                                           *)

\* record d passes the repo filter of opt
Matches(opt, d) == opt.Repo = <<>> \/ d.RepoSpec = opt.Repo[1]

\* the reference set: key and read flag of what List(u, opt) is to return
Reference(u, opt) ==
    {<<k, FALSE>> : k \in {j \in UnreadKeys(prev, u) :
                              Matches(opt, UnreadArea(prev, u)[j].data[1])}}
        \cup
    (IF opt.All
     THEN {<<k, TRUE>> : k \in {j \in ReadKeys(prev, u) \ Expired(prev, u, now) :
                                   Matches(opt, ReadArea(prev, u)[j].data[1])}}
     ELSE {})

\* notification n shows the stored record d
Shows(n, d) ==
    /\ n.RepoSpec = d.RepoSpec
    /\ n.ThreadType = d.ThreadType
    /\ n.ThreadID = d.ThreadID
    /\ n.Title = d.Title
    /\ n.UpdatedAt = d.UpdatedAt
    /\ n.HTMLURL = d.HTMLURL

C28_ResultSet ==
    (last.op = "List" /\ last.err = "nil" /\ LCaller \in Users) =>
        \A r \in LastRuns :
            /\ {<<KeyOf(r.out[i]), r.out[i].Read>> : i \in 1..Len(r.out)}
                  = Reference(LCaller, LOptions)
            /\ Len(r.out) = Cardinality(Reference(LCaller, LOptions))
            /\ \A i \in 1..Len(r.out) : Shows(r.out[i], StoredFor(LCaller, r.out[i]))

\* a List with a repo filter returned an unread record and left out a record
\* of another repository
C28_Witness ==
    /\ last.op = "List" /\ last.err = "nil" /\ LCaller \in Users
    /\ LOptions.Repo # <<>>
    /\ Reference(LCaller, LOptions) # {}
    /\ \E k \in UnreadKeys(prev, LCaller) :
          UnreadArea(prev, LCaller)[k].data[1].RepoSpec # LOptions.Repo[1]

\* a List with includeRead returned a read record; one without did not
C28_WitnessRead ==
    /\ last.op = "List" /\ last.err = "nil" /\ LCaller \in Users
    /\ \E k \in ReadKeys(prev, LCaller) :
          /\ <<k, TRUE>> \in Reference(LCaller, [LOptions EXCEPT !.All = TRUE])
          /\ <<k, TRUE>> \notin Reference(LCaller, [LOptions EXCEPT !.All = FALSE])

\* a List with includeRead at the 30th day of a read record returned it
C28_WitnessBoundary ==
    /\ ListedAll /\ LCaller \in Users
    /\ \E k \in ReadKeys(prev, LCaller) :
          /\ now - ReadArea(prev, LCaller)[k].data[1].UpdatedAt = RetentionDays
          /\ <<k, TRUE>> \in Reference(LCaller, LOptions)

----------------------------------------------------------------------------
(* C29 as stated: decoding the encoding of a user spec gives the user spec  *)
(* back without error, and a Notify that returned no error leaves the       *)
(* supplied record in the unread area of every user, other than the         *)
(* caller, for whom a Subscribe has written a marker in the notified        *)
(* thread or in its repository.                                             *)

RoundTrips(u) == unmarshalUserSpec(marshalUserSpec(u)) = [ok |-> TRUE, us |-> u]

\* a Subscribe for u has left its marker in a scope of the notified thread
Subscribed(u) ==
    HasMarker(prev, NRepo, NThread, u) \/ HasMarker(prev, NRepo, WholeRepo, u)

C29_AsStated ==
    /\ \A u \in MarkerUsers : RoundTrips(u)
    /\ Notified =>
          \A u \in MarkerUsers \ {NCaller} :
              Subscribed(u) => HoldsSupplied(fs, u)

----------------------------------------------------------------------------
(* C30: in the non-archiving service a MarkRead by an authenticated caller  *)
(* who has an unread record under the key returns no error, deletes that    *)
(* record, changes nothing else and leaves no read area in the store; a     *)
(* second MarkRead of the same key then returns no error and leaves the     *)
(* store as it is.                                                          *)

\* the paths of store f under the read area
ReadPaths(f) == {p \in DOMAIN f : IsPrefix(<< <<"read">> >>, p)}

\* the last call was a MarkRead by a user who had an unread record of the key
MarkedUnread == last.op = "MarkRead" /\ MCaller \in Users
                    /\ MKey \in UnreadKeys(prev, MCaller)

C30_NonArchivingMarkRead ==
    MarkedUnread =>
        LET again == NonArchivingMarkRead(fs, MCaller, last.in[3].Type, last.in[2],
                                          last.in[3].ID)
        IN  /\ last.err = "nil"
            /\ fs = Prune(prev, notificationPath(MCaller, MKey))
            /\ MKey \notin UnreadKeys(fs, MCaller)
            /\ ReadPaths(fs) = {}
            /\ again.err = "nil"
            /\ again.fs = fs

\* MarkRead deleted one of the two unread records of the caller
C30_Witness ==
    /\ MarkedUnread /\ last.err = "nil"
    /\ Cardinality(UnreadKeys(prev, MCaller)) = 2
    /\ Cardinality(UnreadKeys(fs, MCaller)) = 1

----------------------------------------------------------------------------
(* C31 as stated: a step that changes the store is taken while a writer     *)
(* holds s.fsMu; no step taken while only readers are inside changes it.    *)

C31_AsStated == [][fs' # fs => fsMu.writer]_vars

----------------------------------------------------------------------------
(* C32 as stated: List calls with includeRead by one user that run at the   *)
(* same time, on a store that does not fail, all return no error.           *)

C32_AsStated == \A p \in ListProcs : pc[p] = "return" => inCall[p].err = "nil"


----------------------------------------------------------------------------
(* C33 as stated: a Notify that returns an error leaves every user who      *)
(* held a record for a key, unread or read, with a record for that key: a   *)
(* failed Notify never loses a notification delivered earlier.              *)

C33_AsStated ==
    (last.op = "Notify" /\ last.err # "nil") =>
        \A u \in Users : \A k \in KeysOf(u) :
            Place(prev, u, k) # "absent" => Place(fs, u, k) # "absent"


----------------------------------------------------------------------------
(* C34 as stated: on a store without the top-level notifications directory, *)
(* a Notify by an authenticated caller that has a recipient, with no store  *)
(* failure, returns no error and every recipient holds the record; on a     *)
(* store without the top-level read directory, a MarkRead of an existing    *)
(* unread record returns no error and the record is in the read area.       *)

C34_AsStated ==
    /\ ( /\ last.op = "Notify" /\ authError(NCaller) = "nil"
         /\ NFault = NoFault /\ Recipients # {}
         /\ ~IsDirAt(prev, << <<"notifications">> >>) ) =>
            /\ last.err = "nil"
            /\ \A u \in Recipients : HoldsSupplied(fs, u)
    /\ (MarkedUnread /\ ~IsDirAt(prev, << <<"read">> >>)) =>
            /\ last.err = "nil"
            /\ MKey \in ReadKeys(fs, MCaller)


----------------------------------------------------------------------------
(* C35: Notify and Subscribe called with the zero caller identity return    *)
(* the permission error, perform no store operation and leave the store as  *)
(* it was: no record is delivered and no marker is created.                 *)

C35_ZeroCaller ==
    (last.op \in {"Notify", "Subscribe"} /\ last.in[1] = Anonymous) =>
        /\ last.err = "ErrPermission"
        /\ LastSteps = {}
        /\ fs = prev
        /\ \A u \in Users :
              /\ UnreadArea(fs, u) = UnreadArea(prev, u)
              /\ Markers(fs) = Markers(prev)

\* Notify with the zero identity for a thread that has subscribers
C35_Witness ==
    /\ last.op = "Notify"
    /\ NCaller = Anonymous
    /\ Interested # {}
    /\ last.err = "ErrPermission"

\* Subscribe with the zero identity for a user who has no marker in the scope
C35_WitnessSubscribe ==
    /\ last.op = "Subscribe"
    /\ last.in[1] = Anonymous
    /\ \E u \in Range(last.in[4]) : ~HasMarker(fs, last.in[2], last.in[3], u)


----------------------------------------------------------------------------
(* C36: no step removes or changes a subscription marker, and a Notify that *)
(* returns no error leaves the record with every user other than the caller *)
(* who held a marker for exactly the scope notified.                        *)

C36_MarkersMonotonic ==
    /\ \A p \in DOMAIN Markers(prev) : p \in DOMAIN fs /\ fs[p] = prev[p]
    /\ Notified =>
          \A u \in Users \ {NCaller} :
              HasMarker(prev, NRepo, NThread, u) => HoldsSupplied(fs, u)

\* a user subscribed by an earlier call was given the record by a Notify
\* that followed a MarkRead, a MarkAllRead or a List
C36_Witness ==
    /\ Notified
    /\ SubscribedStore # prev
    /\ \E u \in Users \ {NCaller} :
          /\ HasMarker(prev, NRepo, NThread, u)
          /\ ~HasMarker(SubscribedStore, NRepo, NThread, u)
          /\ HoldsSupplied(fs, u)


----------------------------------------------------------------------------
(* C37: when no call is in progress s.fsMu is held by nobody, whatever the  *)
(* calls returned; and under fair scheduling every call that has started    *)
(* and waits for, or holds, s.fsMu returns.                                 *)

C37_LockReleased ==
    /\ []((\A p \in Procs : pc[p] = "idle") => fsMu = Unlocked)
    /\ \A p \in Procs : (pc[p] # "idle") ~> (pc[p] = "idle")

\* every call has been made and has returned, the last of them a writer that
\* ran while the store held records
C37_Witness ==
    /\ ncalls = MaxCalls
    /\ \A p \in Procs : pc[p] = "idle"
    /\ fsMu = Unlocked
    /\ last.op = "MarkRead"
    /\ fs # SubscribedStore


----------------------------------------------------------------------------
(* C38: a List with includeRead and a repository filter that returns no     *)
(* error deletes the caller's read records past retention of the other      *)
(* repositories too: the age test comes before the filter.                  *)

\* the caller's read records past retention that the filter of the last List
\* leaves out
ExpiredElsewhere ==
    {k \in Expired(prev, LCaller, now) :
        <<ReadArea(prev, LCaller)[k].data[1].RepoSpec>> # LOptions.Repo}

C38_PruneBeforeFilter ==
    (ListedAll /\ LOptions.Repo # NoFilter) =>
        \A k \in ExpiredElsewhere : Place(fs, LCaller, k) = "absent"

\* a filtered List deleted an expired read record of another repository
C38_Witness ==
    /\ ListedAll /\ LOptions.Repo # NoFilter
    /\ ExpiredElsewhere # {}
    /\ fs # prev


----------------------------------------------------------------------------
(* C39 as stated: a Notify for the whole repository (empty thread type,     *)
(* zero thread id) that returns no error writes for every recipient a       *)
(* record with participating false.                                         *)

C39_AsStated ==
    (Notified /\ NThread = WholeRepo) =>
        \A u \in Recipients :
            HoldsSupplied(fs, u) => ~UnreadArea(fs, u)[NKey].data[1].Participating


----------------------------------------------------------------------------
(* C40 as stated: a Notify delivers only to users who hold a marker that    *)
(* Subscribe created for the notified repository or for the notified        *)
(* thread.  Where Subscribe has been called for the scopes of the           *)
(* repository r/i-1 only, no user holds such a marker for r or for a thread *)
(* of r, and a Notify for r writes no record for anybody.                   *)

C40_AsStated ==
    (last.op = "Notify" /\ NRepo = RepoR) =>
        \A u \in {U1, U3} : UnreadArea(fs, u) = UnreadArea(prev, u)

====
